---- MODULE Spec2Model ----
(***************************************************************************)
(* Vehicle service booking: the booking routes (src/app/api/               *)
(* booking_routes.py) over the DynamoDB-backed BookingCRUD, with the       *)
(* Validator, CostCalculator, QueueService, NotificationService and        *)
(* SchedulerService they call.                                             *)
(*                                                                         *)
(* Units: money is in cents, hours in hundredths of an hour, instants in   *)
(* minutes since midnight of day 0.  A booking_date is a day number, a     *)
(* scheduled_time a record [kind, minute]; kind "aware" is a time string   *)
(* carrying a UTC offset, kind "malformed" one that fromisoformat rejects. *)
(* The bookings table, SNS, SQS and EventBridge are modelled by what the   *)
(* code hands to them; a client call may fail (raise) when the handler's   *)
(* input says so.  The created_at / updated_at timestamps of an item are    *)
(* not part of the state.                                                  *)
(*                                                                         *)
(* The stateless services (CostCalculator, Validator, ReportGenerator) are *)
(* operators; CostSpec, ValidatorSpec and ReportSpec call them on bounded  *)
(* sets of arguments.                                                      *)
(***************************************************************************)
EXTENDS Integers, Sequences, FiniteSets, Bags, TLC

\* ---------------------------------------------------------------- bounds
MaxBookings == 1
MaxTicks == 1
\* the pure services are called with arguments of these ranges
MaxHalfHours == 3
MaxPartsSteps == 2
MaxTotalSteps == 4
MaxServices == 6
MaxThousands == 11
MaxPhoneDigits == 11
MaxReportLen == 2

\* ------------------------------------------------------------- constants
NowStart == 10 * 60
BadDate == 0 - 1
NoneCost == 0 - 1
NoHours == 0 - 1
NoInstant == 0 - 100000
NoId == 1 - 1
NoKey == 0 - 2

BookingStatus == {"PENDING", "CONFIRMED", "IN_PROGRESS", "COMPLETED", "CANCELLED"}
ServiceType == {"OIL_CHANGE", "TIRE_ROTATION", "BRAKE_SERVICE",
                "ENGINE_DIAGNOSTIC", "FULL_SERVICE", "GENERAL_REPAIR"}
BookingUpdateFields == {"service_type", "booking_date", "scheduled_time",
                        "status", "actual_cost", "notes"}

DefaultRuleName == "vehicle-service-reminders"
DefaultEstimatedHours == 150

\* request inputs
BookingIds == 1..MaxBookings
CustomerIds == {"c1"}
ReqServiceTypes == {"OIL_CHANGE"}
ReqDates == {BadDate, 0}
ReqTimes == {[kind |-> "naive", minute |-> 600],
             [kind |-> "naive", minute |-> 659],
             [kind |-> "naive", minute |-> 660],
             [kind |-> "naive", minute |-> 661],
             [kind |-> "aware", minute |-> 720],
             [kind |-> "malformed", minute |-> 0]}
ReqDateTimes == {dt \in ReqDates \X ReqTimes :
                    dt[1] = BadDate => dt[2].minute = 660}
RulePrefixes == {DefaultRuleName, "garage-reminders"}
ReqActualCosts == {12000}
UpdDates == {0}
UpdTimes == {[kind |-> "naive", minute |-> 661]}

\* ------------------------------------------------------------- Validator
RoundDiv(n, d) ==
    LET q == n \div d
        r == n % d
    IN  IF 2 * r > d \/ (2 * r = d /\ q % 2 = 1) THEN q + 1 ELSE q

fromisoformat(booking_date, scheduled_time) ==
    IF booking_date = BadDate \/ scheduled_time.kind = "malformed"
    THEN [ok |-> FALSE, aware |-> FALSE, minute |-> 0]
    ELSE [ok |-> TRUE, aware |-> scheduled_time.kind = "aware",
          minute |-> booking_date * 1440 + scheduled_time.minute]

\* validate_booking_date without its check of the hour of advance
validate_booking_date_NoAdvanceCheck(booking_date, scheduled_time, current_datetime) ==
    LET booking_datetime == fromisoformat(booking_date, scheduled_time)
        diff == booking_datetime.minute - current_datetime
    IN  IF ~booking_datetime.ok \/ booking_datetime.aware
        THEN [is_valid |-> FALSE, message |-> "Invalid date/time format",
              booking_datetime |-> NoInstant,
              hours_until_booking |-> NoHours]
        ELSE IF ~(booking_datetime.minute > current_datetime)
        THEN [is_valid |-> FALSE,
              message |-> "Booking date/time must be in the future",
              booking_datetime |-> booking_datetime.minute,
              hours_until_booking |-> NoHours]
        ELSE [is_valid |-> TRUE, message |-> "Valid booking date/time",
              booking_datetime |-> booking_datetime.minute,
              hours_until_booking |-> RoundDiv(diff * 100, 60)]

validate_booking_date(booking_date, scheduled_time, current_datetime) ==
    LET booking_datetime == fromisoformat(booking_date, scheduled_time)
        diff == booking_datetime.minute - current_datetime
    IN  IF ~booking_datetime.ok \/ booking_datetime.aware
        THEN [is_valid |-> FALSE, message |-> "Invalid date/time format",
              booking_datetime |-> NoInstant,
              hours_until_booking |-> NoHours]
        ELSE IF ~(booking_datetime.minute > current_datetime)
        THEN [is_valid |-> FALSE,
              message |-> "Booking date/time must be in the future",
              booking_datetime |-> booking_datetime.minute,
              hours_until_booking |-> NoHours]
        ELSE IF diff < 60
        THEN [is_valid |-> FALSE,
              message |-> "Booking must be at least 1 hour in advance",
              booking_datetime |-> booking_datetime.minute,
              hours_until_booking |-> NoHours]
        ELSE [is_valid |-> TRUE, message |-> "Valid booking date/time",
              booking_datetime |-> booking_datetime.minute,
              hours_until_booking |-> RoundDiv(diff * 100, 60)]

\* A phone number is the sequence of its characters.
Separators == {" ", "\t", "\n", "-", "(", ")"}
Digits == {"0", "1", "2", "3", "4", "5", "6", "7", "8", "9"}
AllDigits(s) == \A i \in 1..Len(s) : s[i] \in Digits

\* re.sub(r'[\s\-\(\)]', '', phone)
re_sub_separators(phone) == SelectSeq(phone, LAMBDA c : c \notin Separators)

\* re.match(r'^\+?1?(\d{10})$', cleaned_phone): plus and one say whether the
\* optional "+" and the optional "1" take a character
re_match_phone(cleaned_phone) ==
    \E plus \in 0..1, one \in 0..1 :
        /\ Len(cleaned_phone) = plus + one + 10
        /\ plus = 1 => cleaned_phone[1] = "+"
        /\ one = 1 => cleaned_phone[plus + 1] = "1"
        /\ AllDigits(SubSeq(cleaned_phone, plus + one + 1, Len(cleaned_phone)))

validate_phone_number(phone) ==
    LET cleaned_phone == re_sub_separators(phone)
        is_valid == re_match_phone(cleaned_phone)
    IN  [is_valid |-> is_valid,
         phone |-> phone,
         cleaned_phone |-> IF is_valid THEN cleaned_phone ELSE <<>>,
         message |-> IF is_valid THEN "Valid phone number"
                     ELSE "Invalid phone number format"]

mileage_requirements ==
    [t \in ServiceType |->
        CASE t = "OIL_CHANGE" -> 3000
          [] t = "TIRE_ROTATION" -> 5000
          [] t = "BRAKE_SERVICE" -> 10000
          [] t = "ENGINE_DIAGNOSTIC" -> 0
          [] t = "FULL_SERVICE" -> 10000
          [] t = "GENERAL_REPAIR" -> 0]
DEFAULT_REQUIRED_MILEAGE == 0

\* validate_service_eligibility asking for strictly more than the interval
validate_service_eligibility_StrictlyMore(vehicle_mileage, last_service_mileage, service_type) ==
    LET required_mileage == IF service_type \in DOMAIN mileage_requirements
                            THEN mileage_requirements[service_type]
                            ELSE DEFAULT_REQUIRED_MILEAGE
        mileage_since_last_service == vehicle_mileage - last_service_mileage
        is_eligible == mileage_since_last_service > required_mileage
    IN  [is_eligible |-> is_eligible,
         service_type |-> service_type,
         current_mileage |-> vehicle_mileage,
         last_service_mileage |-> last_service_mileage,
         mileage_since_last_service |-> mileage_since_last_service,
         required_mileage |-> required_mileage,
         message |-> IF is_eligible
                     THEN [text |-> "Vehicle is eligible for service",
                           miles |-> <<>>]
                     ELSE [text |-> "Vehicle needs {} more miles before next service",
                           miles |-> <<required_mileage - mileage_since_last_service>>]]

\* the message of an ineligible vehicle carries the miles still to drive
validate_service_eligibility(vehicle_mileage, last_service_mileage, service_type) ==
    LET required_mileage == IF service_type \in DOMAIN mileage_requirements
                            THEN mileage_requirements[service_type]
                            ELSE DEFAULT_REQUIRED_MILEAGE
        mileage_since_last_service == vehicle_mileage - last_service_mileage
        is_eligible == mileage_since_last_service >= required_mileage
    IN  [is_eligible |-> is_eligible,
         service_type |-> service_type,
         current_mileage |-> vehicle_mileage,
         last_service_mileage |-> last_service_mileage,
         mileage_since_last_service |-> mileage_since_last_service,
         required_mileage |-> required_mileage,
         message |-> IF is_eligible
                     THEN [text |-> "Vehicle is eligible for service",
                           miles |-> <<>>]
                     ELSE [text |-> "Vehicle needs {} more miles before next service",
                           miles |-> <<required_mileage - mileage_since_last_service>>]]

\* -------------------------------------------------------- CostCalculator
BASE_PRICES ==
    [t \in ServiceType |->
        CASE t = "OIL_CHANGE" -> 5000
          [] t = "TIRE_ROTATION" -> 4000
          [] t = "BRAKE_SERVICE" -> 15000
          [] t = "ENGINE_DIAGNOSTIC" -> 10000
          [] t = "FULL_SERVICE" -> 30000
          [] t = "GENERAL_REPAIR" -> 8000]
DEFAULT_BASE_PRICE == 10000
LABOR_RATE_PER_HOUR == 7500
WEEKEND_SURCHARGE_PERCENT == 15
URGENT_SERVICE_SURCHARGE == 5000
TAX_RATE_PERCENT == 8

\* service_type.value: the members of the str-valued Enums have the
\* attribute, any other object handed in (a plain str, None) has not
EnumMembers == ServiceType \cup BookingStatus
AttributeError == [exception |-> "AttributeError"]
TypeError == [exception |-> "TypeError"]
Raised(result) == "exception" \in DOMAIN result

\* calculate_service_cost charging the tax on the subtotal, before surcharges
calculate_service_cost_TaxBeforeSurcharges(service_type, estimated_hours, is_weekend, is_urgent, additional_parts_cost) ==
    LET base_cost == IF service_type \in DOMAIN BASE_PRICES
                     THEN BASE_PRICES[service_type] ELSE DEFAULT_BASE_PRICE
        labor_cost4 == estimated_hours * LABOR_RATE_PER_HOUR
        subtotal4 == base_cost * 100 + labor_cost4 + additional_parts_cost * 100
        weekend_surcharge4 == IF is_weekend
                              THEN (subtotal4 \div 100) * WEEKEND_SURCHARGE_PERCENT
                              ELSE 0
        urgent_surcharge == IF is_urgent THEN URGENT_SERVICE_SURCHARGE ELSE 0
        total_before_tax4 == subtotal4 + weekend_surcharge4
                             + urgent_surcharge * 100
        tax6 == subtotal4 * TAX_RATE_PERCENT
        final_total6 == total_before_tax4 * 100 + tax6
    IN  IF service_type \notin EnumMembers
        THEN AttributeError
        ELSE
        [service_type |-> service_type,
         base_service_cost |-> base_cost,
         labor_cost |-> RoundDiv(labor_cost4, 100),
         additional_parts_cost |-> additional_parts_cost,
         weekend_surcharge |-> RoundDiv(weekend_surcharge4, 100),
         urgent_surcharge |-> urgent_surcharge,
         subtotal |-> RoundDiv(subtotal4, 100),
         tax |-> RoundDiv(tax6, 10000),
         estimated_total |-> RoundDiv(final_total6, 10000),
         currency |-> "USD"]

\* Amounts are exact: names ending in 4 are in 1/100 cent, in 6 in 1/10000 cent.
\* The result is built last (line 64), where service_type.value is read.
calculate_service_cost(service_type, estimated_hours, is_weekend, is_urgent, additional_parts_cost) ==
    LET base_cost == IF service_type \in DOMAIN BASE_PRICES
                     THEN BASE_PRICES[service_type] ELSE DEFAULT_BASE_PRICE
        labor_cost4 == estimated_hours * LABOR_RATE_PER_HOUR
        subtotal4 == base_cost * 100 + labor_cost4 + additional_parts_cost * 100
        weekend_surcharge4 == IF is_weekend
                              THEN (subtotal4 \div 100) * WEEKEND_SURCHARGE_PERCENT
                              ELSE 0
        urgent_surcharge == IF is_urgent THEN URGENT_SERVICE_SURCHARGE ELSE 0
        total_before_tax4 == subtotal4 + weekend_surcharge4
                             + urgent_surcharge * 100
        tax6 == total_before_tax4 * TAX_RATE_PERCENT
        final_total6 == total_before_tax4 * 100 + tax6
    IN  IF service_type \notin EnumMembers
        THEN AttributeError
        ELSE
        [service_type |-> service_type,
         base_service_cost |-> base_cost,
         labor_cost |-> RoundDiv(labor_cost4, 100),
         additional_parts_cost |-> additional_parts_cost,
         weekend_surcharge |-> RoundDiv(weekend_surcharge4, 100),
         urgent_surcharge |-> urgent_surcharge,
         subtotal |-> RoundDiv(subtotal4, 100),
         tax |-> RoundDiv(tax6, 10000),
         estimated_total |-> RoundDiv(final_total6, 10000),
         currency |-> "USD"]

\* discount_rate is kept in percent; the code formats it as f"{rate * 100}%"
calculate_bulk_discount(total_cost, num_services) ==
    LET discount_rate == IF num_services >= 5 THEN 15
                         ELSE IF num_services >= 3 THEN 10
                         ELSE IF num_services >= 2 THEN 5
                         ELSE 0
        discount_amount4 == total_cost * discount_rate
        final_cost4 == total_cost * 100 - discount_amount4
    IN  [original_cost |-> total_cost,
         num_services |-> num_services,
         discount_rate |-> discount_rate,
         discount_amount |-> RoundDiv(discount_amount4, 100),
         final_cost |-> RoundDiv(final_cost4, 100),
         savings |-> RoundDiv(discount_amount4, 100)]

durations ==
    [t \in ServiceType |->
        CASE t = "OIL_CHANGE" -> 50
          [] t = "TIRE_ROTATION" -> 75
          [] t = "BRAKE_SERVICE" -> 200
          [] t = "ENGINE_DIAGNOSTIC" -> 150
          [] t = "FULL_SERVICE" -> 400
          [] t = "GENERAL_REPAIR" -> 200]
DEFAULT_DURATION == 100

estimate_service_duration(service_type) ==
    LET duration == IF service_type \in DOMAIN durations
                    THEN durations[service_type] ELSE DEFAULT_DURATION
    IN  IF service_type \notin EnumMembers
        THEN AttributeError
        ELSE [service_type |-> service_type,
              estimated_duration_hours |-> duration,
              estimated_duration_minutes |-> (duration * 60) \div 100]

\* ------------------------------------------------------- ReportGenerator
\* A booking handed to a report is a dict: a cost is a number of cents,
\* NoneCost when the key holds None (what Booking.dict() gives an unset
\* cost), NoKey when the dict has no such key.  A booking_date is the
\* [y, m, d] its text spells.  generated_at is left out of the reports.
dict_get(value, default) == IF value = NoKey THEN default ELSE value
truthy(value) == value \notin {NoKey, NoneCost, 0}

\* sum(terms): adding None to a number raises TypeError
sum(terms) ==
    LET partial[i \in 0..Len(terms)] ==
            IF i = 0 THEN 0 ELSE partial[i - 1] + terms[i]
    IN  partial[Len(terms)]
sum_raises(terms) == \E i \in 1..Len(terms) : terms[i] = NoneCost

\* the dict counting the bookings by the value of a field
counts(bookings, field) ==
    [v \in {bookings[i][field] : i \in 1..Len(bookings)} |->
        Cardinality({i \in 1..Len(bookings) : bookings[i][field] = v})]

DaysInMonth(y, m) ==
    IF m = 2
    THEN (IF y % 4 = 0 /\ (y % 100 # 0 \/ y % 400 = 0) THEN 29 ELSE 28)
    ELSE IF m \in {4, 6, 9, 11} THEN 30 ELSE 31

\* datetime.fromisoformat(date_string), <<>> when it raises
date_fromisoformat(date_string) ==
    IF date_string.m \in 1..12
        /\ date_string.d \in 1..DaysInMonth(date_string.y, date_string.m)
    THEN <<[year |-> date_string.y, month |-> date_string.m,
            day |-> date_string.d]>>
    ELSE <<>>

is_in_month(date_string, month, year) ==
    LET date == date_fromisoformat(date_string)
    IN  date # <<>> /\ date[1].month = month /\ date[1].year = year

\* what one booking adds to total_revenue in lines 35-38
summary_revenue(booking) ==
    IF truthy(booking.actual_cost) THEN booking.actual_cost
    ELSE IF truthy(booking.estimated_cost) THEN booking.estimated_cost
    ELSE 0

generate_booking_summary_report(bookings) ==
    LET total_bookings == Len(bookings)
        total_revenue == sum([i \in 1..Len(bookings) |->
                                 summary_revenue(bookings[i])])
    IN  IF bookings = <<>>
        THEN [status |-> "success",
              message |-> "No bookings to generate report",
              report |-> <<>>]
        ELSE [status |-> "success",
              message |-> "Booking summary report generated",
              report |-> <<[summary |->
                               [total_bookings |-> total_bookings,
                                total_revenue |-> total_revenue,
                                average_booking_value |->
                                    RoundDiv(total_revenue, total_bookings)],
                            by_status |-> counts(bookings, "status"),
                            by_service_type |-> counts(bookings, "service_type")]>>]

ZeroDivisionError == [exception |-> "ZeroDivisionError"]

generate_customer_service_history(customer_bookings) ==
    LET total_services == Len(customer_bookings)
        terms == [i \in 1..Len(customer_bookings) |->
                     dict_get(customer_bookings[i].actual_cost,
                              dict_get(customer_bookings[i].estimated_cost, 0))]
        total_spent == sum(terms)
        services_by_type == counts(customer_bookings, "service_type")
        first(t) == CHOOSE i \in 1..Len(customer_bookings) :
                        /\ customer_bookings[i].service_type = t
                        /\ \A k \in 1..(i - 1) : customer_bookings[k].service_type # t
        \* max(services_by_type, key=services_by_type.get): the first key
        \* inserted among those of the highest count
        most_frequent_service ==
            CHOOSE t \in DOMAIN services_by_type :
                \A u \in DOMAIN services_by_type :
                    \/ services_by_type[u] < services_by_type[t]
                    \/ services_by_type[u] = services_by_type[t] /\ first(t) <= first(u)
    IN  IF customer_bookings = <<>>
        THEN [status |-> "success",
              message |-> "No service history found",
              report |-> <<>>]
        ELSE IF sum_raises(terms)
        THEN TypeError
        ELSE [status |-> "success",
              message |-> "Customer service history generated",
              report |-> <<[total_services |-> total_services,
                            total_amount_spent |-> total_spent,
                            average_service_cost |->
                                IF total_services > 0
                                THEN RoundDiv(total_spent, total_services)
                                ELSE 0,
                            services_by_type |-> services_by_type,
                            most_frequent_service |-> most_frequent_service]>>]

\* generate_service_center_performance dividing by the COMPLETED count unguarded
generate_service_center_performance_NoZeroGuard(service_center_bookings) ==
    LET total_bookings == Len(service_center_bookings)
        completed == SelectSeq(service_center_bookings,
                               LAMBDA b : b.status = "COMPLETED")
        cancelled == SelectSeq(service_center_bookings,
                               LAMBDA b : b.status = "CANCELLED")
        completed_bookings == Len(completed)
        cancelled_bookings == Len(cancelled)
        terms == [i \in 1..Len(completed) |->
                     dict_get(completed[i].actual_cost, 0)]
        total_revenue == sum(terms)
    IN  IF service_center_bookings = <<>>
        THEN [status |-> "success",
              message |-> "No bookings found for service center",
              report |-> <<>>]
        ELSE IF sum_raises(terms)
        THEN TypeError
        ELSE IF completed_bookings = 0
        THEN ZeroDivisionError
        ELSE [status |-> "success",
              message |-> "Service center performance report generated",
              report |-> <<[total_bookings |-> total_bookings,
                            completed_bookings |-> completed_bookings,
                            cancelled_bookings |-> cancelled_bookings,
                            completion_rate |->
                                RoundDiv(completed_bookings * 10000, total_bookings),
                            cancellation_rate |->
                                RoundDiv(cancelled_bookings * 10000, total_bookings),
                            total_revenue |-> total_revenue,
                            average_revenue_per_booking |->
                                IF completed_bookings > 0
                                THEN RoundDiv(total_revenue, completed_bookings)
                                ELSE 0]>>]

\* rates are in hundredths of a percent
generate_service_center_performance(service_center_bookings) ==
    LET total_bookings == Len(service_center_bookings)
        completed == SelectSeq(service_center_bookings,
                               LAMBDA b : b.status = "COMPLETED")
        cancelled == SelectSeq(service_center_bookings,
                               LAMBDA b : b.status = "CANCELLED")
        completed_bookings == Len(completed)
        cancelled_bookings == Len(cancelled)
        terms == [i \in 1..Len(completed) |->
                     dict_get(completed[i].actual_cost, 0)]
        total_revenue == sum(terms)
    IN  IF service_center_bookings = <<>>
        THEN [status |-> "success",
              message |-> "No bookings found for service center",
              report |-> <<>>]
        ELSE IF sum_raises(terms)
        THEN TypeError
        ELSE [status |-> "success",
              message |-> "Service center performance report generated",
              report |-> <<[total_bookings |-> total_bookings,
                            completed_bookings |-> completed_bookings,
                            cancelled_bookings |-> cancelled_bookings,
                            completion_rate |->
                                RoundDiv(completed_bookings * 10000, total_bookings),
                            cancellation_rate |->
                                RoundDiv(cancelled_bookings * 10000, total_bookings),
                            total_revenue |-> total_revenue,
                            average_revenue_per_booking |->
                                IF completed_bookings > 0
                                THEN RoundDiv(total_revenue, completed_bookings)
                                ELSE 0]>>]

generate_monthly_report(month, year, all_bookings) ==
    LET monthly_bookings == SelectSeq(all_bookings,
                                LAMBDA b : is_in_month(b.booking_date, month, year))
        total_bookings == Len(monthly_bookings)
        terms == [i \in 1..Len(monthly_bookings) |->
                     dict_get(monthly_bookings[i].actual_cost,
                              dict_get(monthly_bookings[i].estimated_cost, 0))]
        total_revenue == sum(terms)
    IN  IF monthly_bookings = <<>>
        THEN [status |-> "success",
              message |-> "No bookings found for {month}/{year}",
              report |-> <<>>]
        ELSE IF sum_raises(terms)
        THEN TypeError
        ELSE [status |-> "success",
              message |-> "Monthly report generated for {month}/{year}",
              report |-> <<[month |-> month,
                            year |-> year,
                            total_bookings |-> total_bookings,
                            total_revenue |-> total_revenue,
                            average_booking_value |->
                                RoundDiv(total_revenue, total_bookings)]>>]

\* ----------------------------------------------------------------- state
VARIABLES
    now,               \* the ambient clock datetime.now() reads, in minutes
    rule_name_prefix,  \* config.EVENTBRIDGE_RULE_NAME of this deployment
    faults,            \* whether the AWS clients of this run may raise
    table,             \* the bookings table: booking_id -> item
    next_id,           \* number of booking ids uuid4 has handed out
    sqs,               \* bag of the messages sent to the queue
    sns,               \* bag of the notices published to the topic
    rules,             \* the rules EventBridge holds
    scheduler_log,     \* bag of the calls made to SchedulerService
    resp,              \* the last handler's HTTP outcome
    returned,          \* the booking the last handler returned, if any
    calls,             \* the calls the last handler made, with their outcome
    request,           \* the date and time the last POST /bookings/ asked for
    validation,        \* what validate_booking_date told the last handler
    pc,                \* where each concurrent caller stands in its handler
    entities           \* the customers, vehicles and service centers tables

vars == <<now, rule_name_prefix, faults, table, next_id, sqs, sns, rules,
          scheduler_log, resp, returned, calls, request, validation, pc,
          entities>>

\* the tables of CustomerCRUD, VehicleCRUD and ServiceCenterCRUD: the rows
\* each holds by id, and the number of ids uuid4 has handed out for it
EntityKinds == {"customer", "vehicle", "service_center"}
NoEntities == [kind \in EntityKinds |-> [rows |-> <<>>, issued |-> 0]]

NoValidation == [is_valid |-> FALSE, message |-> "", booking_datetime |-> NoInstant,
                 hours_until_booking |-> NoHours]

Call(name, status) == [call |-> name, status |-> status]
ClientOutcomes == IF faults THEN BOOLEAN ELSE {TRUE}
Put(bag, e) == bag (+) SetToBag({e})

\* ---------------------------------------------------------------- models
\* BookingUpdate keeps the declared fields of its keyword arguments and
\* ignores the others (pydantic's default for undeclared fields).
BookingUpdate(kwargs) ==
    [f \in (DOMAIN kwargs) \cap BookingUpdateFields |-> kwargs[f]]

\* ----------------------------------------------------------- BookingCRUD
get_booking_item(tbl, booking_id) ==
    IF booking_id \in DOMAIN tbl THEN <<tbl[booking_id]>> ELSE <<>>

crud_create_booking(booking_id, booking_data) ==
    [booking_id |-> booking_id,
     customer_id |-> booking_data.customer_id,
     vehicle_id |-> booking_data.vehicle_id,
     service_center_id |-> booking_data.service_center_id,
     service_type |-> booking_data.service_type,
     booking_date |-> booking_data.booking_date,
     scheduled_time |-> booking_data.scheduled_time,
     status |-> "PENDING",
     estimated_cost |-> NoneCost,
     actual_cost |-> NoneCost,
     notes |-> booking_data.notes]

put_item(tbl, item) ==
    [i \in (DOMAIN tbl) \cup {item.booking_id} |->
        IF i = item.booking_id THEN item ELSE tbl[i]]

delete_item(tbl, booking_id) ==
    [i \in (DOMAIN tbl) \ {booking_id} |-> tbl[i]]

\* update_item SET #k = :k for every key of update_data
update_item(item, update_data) ==
    [f \in (DOMAIN item) \cup (DOMAIN update_data) |->
        IF f \in DOMAIN update_data THEN update_data[f] ELSE item[f]]

crud_update_booking(tbl, booking_id, booking_data) ==
    IF booking_id \notin DOMAIN tbl
    THEN tbl
    ELSE [tbl EXCEPT ![booking_id] = update_item(tbl[booking_id], booking_data)]

\* ---------------------------------------------------------- QueueService
\* the names bound in module queue_service; its methods read datetime
QueueServiceNames == {"boto3", "json", "Dict", "Any", "List", "config"}

enqueue_booking_request(queue, booking_data, client_ok) ==
    IF "datetime" \notin QueueServiceNames
    THEN [status |-> "error", queue |-> queue]
    ELSE IF ~client_ok
    THEN [status |-> "error", queue |-> queue]
    ELSE [status |-> "success",
          queue |-> Put(queue, [message_type |-> "BOOKING_REQUEST",
                                data |-> booking_data])]

\* --------------------------------------------------- NotificationService
publish(topic, notification_type, booking_details, client_ok) ==
    IF ~client_ok
    THEN [status |-> "error", topic |-> topic]
    ELSE [status |-> "success",
          topic |-> Put(topic, [notification_type |-> notification_type,
                                booking_id |-> booking_details.booking_id])]

send_booking_confirmation(topic, booking_details, client_ok) ==
    publish(topic, "BOOKING_CONFIRMATION", booking_details, client_ok)

send_cancellation_notification(topic, booking_details, client_ok) ==
    publish(topic, "BOOKING_CANCELLATION", booking_details, client_ok)

\* ------------------------------------------------------ SchedulerService
RuleName(prefix, booking_id) == <<prefix, booking_id>>

schedule_booking_reminder(rls, prefix, booking_id, booking_date, scheduled_time, client_ok) ==
    LET booking_dt == fromisoformat(booking_date, scheduled_time)
        reminder_dt == booking_dt.minute - 24 * 60
        rule_name == RuleName(prefix, booking_id)
    IN  IF ~booking_dt.ok \/ ~client_ok
        THEN [status |-> "error", rules |-> rls, rule_name |-> rule_name,
              reminder_datetime |-> reminder_dt]
        ELSE [status |-> "success",
              rules |-> {r \in rls : r.name # rule_name}
                        \cup {[name |-> rule_name, schedule |-> reminder_dt]},
              rule_name |-> rule_name,
              reminder_datetime |-> reminder_dt]

cancel_scheduled_event(rls, rule_name, client_ok) ==
    IF ~client_ok \/ ~(\E r \in rls : r.name = rule_name)
    THEN [status |-> "error", rules |-> rls]
    ELSE [status |-> "success", rules |-> {r \in rls : r.name # rule_name}]

\* ------------------------------------------------------------------ Init
InitState ==
    /\ now = NowStart
    /\ rule_name_prefix \in RulePrefixes
    /\ table = [i \in {} |-> 0]
    /\ next_id = 0
    /\ sqs = EmptyBag
    /\ sns = EmptyBag
    /\ rules = {}
    /\ scheduler_log = EmptyBag
    /\ resp = [op |-> "none", booking_id |-> NoId, status_code |-> 0]
    /\ returned = <<>>
    /\ calls = <<>>
    /\ request = <<>>
    /\ validation = NoValidation
    /\ pc = <<>>
    /\ entities = NoEntities

Init ==
    /\ faults = FALSE
    /\ InitState

\* --------------------------------------------------------------- actions
Response(op, booking_id, status_code) ==
    [op |-> op, booking_id |-> booking_id, status_code |-> status_code]

\* a handler that goes on whatever the validation said
RequestRejected_Never(v) == FALSE

\* a handler that sends the confirmation before it enqueues the request
SideEffects_ConfirmationFirst(queued, confirmed, reminder) ==
    <<Call("send_booking_confirmation", confirmed.status),
      Call("enqueue_booking_request", queued.status),
      Call("schedule_booking_reminder", reminder.status)>>

\* create_booking, lines 45-63: the three services are called one after the
\* other and the dict each returns is dropped
SideEffects(queued, confirmed, reminder) ==
    <<Call("enqueue_booking_request", queued.status),
      Call("send_booking_confirmation", confirmed.status),
      Call("schedule_booking_reminder", reminder.status)>>

\* if not validation['is_valid']: raise HTTPException(status_code=400)
RequestRejected(v) == ~v.is_valid

\* POST /bookings/
create_booking ==
    \E customer_id \in CustomerIds, service_type \in ReqServiceTypes,
       date_time \in ReqDateTimes,
       put_ok \in ClientOutcomes, update_ok \in ClientOutcomes,
       sqs_ok \in ClientOutcomes, sns_ok \in ClientOutcomes,
       eb_ok \in ClientOutcomes :
      LET booking_date == date_time[1]
          scheduled_time == date_time[2]
          booking_data == [customer_id |-> customer_id, vehicle_id |-> "v1",
                           service_center_id |-> "s1",
                           service_type |-> service_type,
                           booking_date |-> booking_date,
                           scheduled_time |-> scheduled_time, notes |-> ""]
          v == validate_booking_date(booking_date, scheduled_time, now)
          cost_estimate == calculate_service_cost(service_type,
                               DefaultEstimatedHours, FALSE, FALSE, 0)
          booking_id == next_id + 1
          booking == crud_create_booking(booking_id, booking_data)
          stored == put_item(table, booking)
          updated == crud_update_booking(stored, booking_id,
                         BookingUpdate([f \in {"estimated_cost"} |->
                                           cost_estimate.estimated_total]))
          queued == enqueue_booking_request(sqs,
                        [booking_id |-> booking_id,
                         customer_id |-> booking.customer_id,
                         service_type |-> booking.service_type], sqs_ok)
          confirmed == send_booking_confirmation(sns, booking, sns_ok)
          reminder == schedule_booking_reminder(rules, rule_name_prefix,
                          booking_id, booking.booking_date,
                          booking.scheduled_time, eb_ok)
          head == <<Call("validate_booking_date", "success"),
                    Call("calculate_service_cost", "success")>>
      IN  /\ v.is_valid => next_id < MaxBookings
          /\ request' = <<[booking_date |-> booking_date,
                            scheduled_time |-> scheduled_time]>>
          /\ validation' = v
          /\ IF RequestRejected(v)
             THEN /\ resp' = Response("create_booking", NoId, 400)
                  /\ calls' = <<Call("validate_booking_date", "error")>>
                  /\ returned' = <<>>
                  /\ UNCHANGED <<table, next_id, sqs, sns, rules, scheduler_log>>
             ELSE IF ~put_ok
             THEN /\ resp' = Response("create_booking", booking_id, 500)
                  /\ calls' = head \o <<Call("put_item", "error")>>
                  /\ returned' = <<>>
                  /\ next_id' = booking_id
                  /\ UNCHANGED <<table, sqs, sns, rules, scheduler_log>>
             ELSE IF ~update_ok
             THEN /\ resp' = Response("create_booking", booking_id, 500)
                  /\ calls' = head \o <<Call("put_item", "success"),
                                        Call("update_item", "error")>>
                  /\ returned' = <<>>
                  /\ next_id' = booking_id
                  /\ table' = stored
                  /\ UNCHANGED <<sqs, sns, rules, scheduler_log>>
             ELSE /\ resp' = Response("create_booking", booking_id, 200)
                  /\ calls' = head \o
                        <<Call("put_item", "success"),
                          Call("update_item", "success")>> \o
                        SideEffects(queued, confirmed, reminder)
                  /\ returned' = <<booking>>
                  /\ next_id' = booking_id
                  /\ table' = updated
                  /\ sqs' = queued.queue
                  /\ sns' = confirmed.topic
                  /\ rules' = reminder.rules
                  /\ scheduler_log' = Put(scheduler_log,
                        [call |-> "schedule_booking_reminder",
                         booking_id |-> booking_id,
                         rule_name |-> reminder.rule_name,
                         reminder_datetime |-> reminder.reminder_datetime])
          /\ UNCHANGED <<pc, entities, now, rule_name_prefix, faults>>

\* GET /bookings/{booking_id}
get_booking ==
    \E booking_id \in BookingIds :
      LET booking == get_booking_item(table, booking_id)
      IN  /\ resp' = Response("get_booking", booking_id,
                              IF booking = <<>> THEN 404 ELSE 200)
          /\ returned' = booking
          /\ calls' = <<Call("get_item", "success")>>
          /\ request' = <<>>
          /\ validation' = NoValidation
          /\ UNCHANGED <<pc, entities, now, rule_name_prefix, faults, table, next_id, sqs,
                         sns, rules, scheduler_log>>

\* the request bodies of PUT /bookings/{booking_id}
UpdateFieldSets ==
    (SUBSET {"status", "actual_cost"})
        \cup {{"service_type"}, {"booking_date", "scheduled_time"}}

UpdateRequests ==
    {[f \in fields |->
         CASE f = "status" -> status
           [] f = "actual_cost" -> actual_cost
           [] f = "service_type" -> service_type
           [] f = "booking_date" -> booking_date
           [] f = "scheduled_time" -> scheduled_time] :
     fields \in UpdateFieldSets, status \in BookingStatus,
     actual_cost \in ReqActualCosts, service_type \in ReqServiceTypes,
     booking_date \in UpdDates, scheduled_time \in UpdTimes}

\* PUT /bookings/{booking_id}
update_booking ==
    \E booking_id \in BookingIds, kwargs \in UpdateRequests,
       update_ok \in ClientOutcomes :
      LET booking_data == BookingUpdate(kwargs)
          updated == crud_update_booking(table, booking_id, booking_data)
      IN  /\ IF booking_id \notin DOMAIN table
             THEN /\ resp' = Response("update_booking", booking_id, 404)
                  /\ calls' = <<Call("get_item", "success")>>
                  /\ returned' = <<>>
                  /\ UNCHANGED table
             ELSE IF ~update_ok
             THEN /\ resp' = Response("update_booking", booking_id, 500)
                  /\ calls' = <<Call("get_item", "success"),
                                Call("update_item", "error")>>
                  /\ returned' = <<>>
                  /\ UNCHANGED table
             ELSE /\ resp' = Response("update_booking", booking_id, 200)
                  /\ calls' = <<Call("get_item", "success"),
                                Call("update_item", "success")>>
                  /\ returned' = <<updated[booking_id]>>
                  /\ table' = updated
          /\ request' = <<>>
          /\ validation' = NoValidation
          /\ UNCHANGED <<pc, entities, now, rule_name_prefix, faults, next_id, sqs, sns,
                         rules, scheduler_log>>

\* DELETE /bookings/{booking_id}
delete_booking ==
    \E booking_id \in BookingIds, sns_ok \in ClientOutcomes,
       eb_ok \in ClientOutcomes, delete_ok \in ClientOutcomes :
      LET booking == get_booking_item(table, booking_id)
          rule_name == RuleName(DefaultRuleName, booking_id)
          notice == send_cancellation_notification(sns, booking[1], sns_ok)
          cancelled == cancel_scheduled_event(rules, rule_name, eb_ok)
          head == <<Call("get_item", "success"),
                    Call("send_cancellation_notification", notice.status),
                    Call("cancel_scheduled_event", cancelled.status)>>
      IN  /\ IF booking = <<>>
             THEN /\ resp' = Response("delete_booking", booking_id, 404)
                  /\ calls' = <<Call("get_item", "success")>>
                  /\ UNCHANGED <<table, sns, rules, scheduler_log>>
             ELSE /\ sns' = notice.topic
                  /\ rules' = cancelled.rules
                  /\ scheduler_log' = Put(scheduler_log,
                        [call |-> "cancel_scheduled_event",
                         booking_id |-> booking_id,
                         rule_name |-> rule_name,
                         reminder_datetime |-> 0])
                  /\ IF delete_ok
                     THEN /\ table' = delete_item(table, booking_id)
                          /\ resp' = Response("delete_booking", booking_id, 200)
                          /\ calls' = head \o <<Call("delete_item", "success")>>
                     ELSE /\ UNCHANGED table
                          /\ resp' = Response("delete_booking", booking_id, 500)
                          /\ calls' = head \o <<Call("delete_item", "error")>>
          /\ returned' = <<>>
          /\ request' = <<>>
          /\ validation' = NoValidation
          /\ UNCHANGED <<pc, entities, now, rule_name_prefix, faults, next_id, sqs>>

\* time passes between requests
Tick ==
    /\ now < NowStart + MaxTicks
    /\ now' = now + 1
    /\ UNCHANGED <<rule_name_prefix, faults, table, next_id, sqs, sns, rules,
                   scheduler_log, resp, returned, calls, request, validation,
                   pc, entities>>

Next ==
    \/ create_booking
    \/ get_booking
    \/ update_booking
    \/ delete_booking
    \/ Tick

Spec == Init /\ [][Next]_vars

\* ---------------------------------------------------------------- claims
TerminalStatuses == {"COMPLETED", "CANCELLED"}
NonTerminalStatuses == BookingStatus \ TerminalStatuses
LegalTransitions ==
    {<<"PENDING", "CONFIRMED">>, <<"CONFIRMED", "IN_PROGRESS">>,
     <<"IN_PROGRESS", "COMPLETED">>, <<"PENDING", "CANCELLED">>,
     <<"CONFIRMED", "CANCELLED">>, <<"IN_PROGRESS", "CANCELLED">>}

Kept == (DOMAIN table) \cap (DOMAIN table')
\* a step of the handler op: a handler writes resp and leaves the clock alone
Handled(op) == resp'.op = op /\ now' = now
CancellationNotice(booking_id) ==
    [notification_type |-> "BOOKING_CANCELLATION", booking_id |-> booking_id]
ConfirmationNotice(booking_id) ==
    [notification_type |-> "BOOKING_CONFIRMATION", booking_id |-> booking_id]
Deschedulings(log, booking_id) ==
    {e \in BagToSet(log) : e.call = "cancel_scheduled_event"
                           /\ e.booking_id = booking_id}
Schedulings(log, booking_id) ==
    {e \in BagToSet(log) : e.call = "schedule_booking_reminder"
                           /\ e.booking_id = booking_id}
Count(log, S) == BagCardinality([e \in S |-> CopiesIn(e, log)])

\* C1: an update_booking on a booking whose status is COMPLETED or CANCELLED
\* never changes that status: the request fails and the stored booking
\* stays as it was.
C1_TerminalStatusIsFinal ==
    [][\A id \in Kept :
          (Handled("update_booking") /\ resp'.booking_id = id
              /\ table[id].status \in TerminalStatuses)
          => /\ table'[id].status = table[id].status
             /\ (resp'.status_code = 200 => table'[id] = table[id])]_vars

\* C2: every change of a stored booking's status is one of the lifecycle's
\* transitions; none skips a stage or goes backwards.
C2_StatusChangesAreLegal ==
    [][\A id \in Kept :
          table'[id].status # table[id].status
          => <<table[id].status, table'[id].status>> \in LegalTransitions]_vars

\* C3: DELETE /bookings/{id} on a PENDING, CONFIRMED or IN_PROGRESS booking
\* succeeds, the booking is still stored afterwards with status CANCELLED,
\* and exactly one cancellation notice and one descheduling request for it
\* have been emitted.
C3_CancelKeepsBookingAsCancelled ==
    [][\A id \in DOMAIN table :
          (Handled("delete_booking") /\ resp'.booking_id = id
              /\ table[id].status \in NonTerminalStatuses)
          => /\ resp'.status_code = 200
             /\ id \in DOMAIN table'
             /\ table'[id].status = "CANCELLED"
             /\ CopiesIn(CancellationNotice(id), sns') = 1
             /\ Count(scheduler_log', Deschedulings(scheduler_log', id)) = 1]_vars

\* C4: DELETE /bookings/{id} on a COMPLETED or CANCELLED booking is refused
\* with a state-transition error; no cancellation notice and no descheduling
\* request is emitted and the stored booking is unchanged.
C4_CancelOfTerminalIsRefused ==
    [][\A id \in DOMAIN table :
          (Handled("delete_booking") /\ resp'.booking_id = id
              /\ table[id].status \in TerminalStatuses)
          => /\ resp'.status_code \notin {200, 404}
             /\ sns' = sns
             /\ scheduler_log' = scheduler_log
             /\ table' = table]_vars

\* C5: a POST /bookings/ whose date/time validate_booking_date rejects is
\* answered 400 right after the validation: no cost was computed, no booking
\* id handed out or item stored, nothing queued, published or scheduled.
C5_RejectedRequestHasNoEffect ==
    [][(Handled("create_booking") /\ ~validation'.is_valid)
          => /\ resp'.status_code = 400
             /\ returned' = <<>>
             /\ \A i \in 1..Len(calls') : calls'[i].call = "validate_booking_date"
             /\ table' = table
             /\ next_id' = next_id
             /\ sqs' = sqs
             /\ sns' = sns
             /\ rules' = rules
             /\ scheduler_log' = scheduler_log]_vars

\* C5 witness: a too-soon request was refused while a booking was stored
C5_Witness ==
    /\ resp.op = "create_booking"
    /\ resp.status_code = 400
    /\ validation.message = "Booking must be at least 1 hour in advance"
    /\ DOMAIN table # {}

\* C6: the booking an accepted POST /bookings/ returns, and the one stored
\* under its id, are PENDING with estimated_cost equal to the estimated_total
\* of calculate_service_cost(service_type, 1.5 hours).
C6_EstimatedCostSetAtCreation ==
    (resp.op = "create_booking" /\ resp.status_code = 200)
    => LET expected == calculate_service_cost(returned[1].service_type,
                           DefaultEstimatedHours, FALSE, FALSE, 0).estimated_total
       IN  /\ returned[1].status = "PENDING"
           /\ returned[1].estimated_cost = expected
           /\ table[resp.booking_id].status = "PENDING"
           /\ table[resp.booking_id].estimated_cost = expected

\* C7: a stored booking has an actual_cost only if its status is COMPLETED.
C7_ActualCostOnlyWhenCompleted ==
    \A id \in DOMAIN table :
        table[id].actual_cost # NoneCost => table[id].status = "COMPLETED"

\* C8: when the clients do not fail, an accepted POST /bookings/ has handed
\* exactly one BOOKING_REQUEST message (booking id, customer id, service
\* type) to the queue, published exactly one confirmation notice and made
\* exactly one reminder request for 24 hours before the scheduled instant.
C8_AcceptedRequestEmitsThreeIntents ==
    (resp.op = "create_booking" /\ resp.status_code = 200 /\ ~faults)
    => LET id == resp.booking_id
           instant == fromisoformat(request[1].booking_date,
                                    request[1].scheduled_time).minute
       IN  /\ CopiesIn([message_type |-> "BOOKING_REQUEST",
                        data |-> [booking_id |-> id,
                                  customer_id |-> returned[1].customer_id,
                                  service_type |-> returned[1].service_type]],
                       sqs) = 1
           /\ CopiesIn(ConfirmationNotice(id), sns) = 1
           /\ Count(scheduler_log, Schedulings(scheduler_log, id)) = 1
           /\ \A e \in Schedulings(scheduler_log, id) :
                 e.reminder_datetime = instant - 24 * 60

\* C9: the rule name a cancellation passes to cancel_scheduled_event is the
\* rule name schedule_booking_reminder created for that booking, whatever
\* the configured prefix.
C9_CancelAddressesScheduledRule ==
    \A c \in BagToSet(scheduler_log) :
        c.call = "cancel_scheduled_event"
        => \E e \in Schedulings(scheduler_log, c.booking_id) :
              e.rule_name = c.rule_name

Services == <<now, rule_name_prefix, faults, table, next_id, sqs, sns, rules,
              scheduler_log, resp, calls, validation, pc, entities>>

PureInit ==
    /\ Init
    /\ rule_name_prefix = DefaultRuleName

CallOf(fn) == request # <<>> /\ request[1].fn = fn
Idle == request = <<>>

take_result ==
    /\ ~Idle
    /\ request' = <<>>
    /\ returned' = <<>>
    /\ UNCHANGED Services

\* -------------------------------------------------- CostCalculator calls
\* Arguments are chosen so that no amount of the breakdown falls exactly
\* between two cents: there the binary floating point of the code decides
\* the direction of round(x, 2), and exact arithmetic does not tell which.
\* "PENDING" is a member of another Enum, "CAR_WASH" a plain str.
CostServiceTypes == ServiceType \cup {"PENDING", "CAR_WASH"}
CostHours == {k * 50 : k \in (0 - MaxHalfHours)..MaxHalfHours}
CostParts == {k * 1240 : k \in (0 - MaxPartsSteps)..MaxPartsSteps}
CostArgs ==
    {a \in [service_type : CostServiceTypes, estimated_hours : CostHours,
            is_weekend : BOOLEAN, is_urgent : BOOLEAN,
            additional_parts_cost : CostParts] :
        a.is_weekend => a.estimated_hours % 100 = 0}
BulkTotals == {k * 2000 : k \in (0 - MaxTotalSteps)..MaxTotalSteps}
BulkCounts == 0..MaxServices

Cost(a) == calculate_service_cost(a.service_type, a.estimated_hours, a.is_weekend, a.is_urgent, a.additional_parts_cost)

call_calculate_service_cost ==
    \E a \in CostArgs :
        /\ Idle
        /\ request' = <<[fn |-> "calculate_service_cost", args |-> a]>>
        /\ returned' = <<Cost(a)>>
        /\ UNCHANGED Services

call_calculate_bulk_discount ==
    \E total_cost \in BulkTotals, num_services \in BulkCounts :
        /\ Idle
        /\ request' = <<[fn |-> "calculate_bulk_discount",
                         args |-> [total_cost |-> total_cost,
                                   num_services |-> num_services]]>>
        /\ returned' = <<calculate_bulk_discount(total_cost, num_services)>>
        /\ UNCHANGED Services

call_estimate_service_duration ==
    \E service_type \in CostServiceTypes :
        /\ Idle
        /\ request' = <<[fn |-> "estimate_service_duration",
                         args |-> [service_type |-> service_type]]>>
        /\ returned' = <<estimate_service_duration(service_type)>>
        /\ UNCHANGED Services

CostNext ==
    \/ call_calculate_service_cost
    \/ call_calculate_bulk_discount
    \/ call_estimate_service_duration
    \/ take_result

CostSpec == PureInit /\ [][CostNext]_vars

\* C11: for every service type of the price table and all hours, flags and
\* parts of the bounded set, estimated_total is round2(pre_tax * 1.08), with
\* subtotal = base + hours * 75.00 + parts and pre_tax = subtotal + 15% of
\* the subtotal on a weekend + 50.00 when urgent; with 0 hours, no flag and
\* no parts it is base * 1.08; OIL_CHANGE with 1.5 hours and nothing else
\* gives labor 112.50, subtotal 162.50, tax 13.00, total 175.50.
C11_TotalIsTaxOnSurchargedSubtotal ==
    (CallOf("calculate_service_cost")
        /\ request[1].args.service_type \in DOMAIN BASE_PRICES) =>
      LET a == request[1].args
          r == returned[1]
          base == BASE_PRICES[a.service_type]
          subtotal == base + (a.estimated_hours * 7500) \div 100
                      + a.additional_parts_cost
          pre_tax4 == subtotal * 100
                      + (IF a.is_weekend THEN 15 * subtotal ELSE 0)
                      + (IF a.is_urgent THEN 5000 * 100 ELSE 0)
          plain == ~a.is_weekend /\ ~a.is_urgent /\ a.additional_parts_cost = 0
      IN  /\ ~Raised(r)
          /\ r.estimated_total = RoundDiv(pre_tax4 * 108, 10000)
          /\ (plain /\ a.estimated_hours = 0) =>
                 r.estimated_total = RoundDiv(base * 108, 100)
          /\ (plain /\ a.estimated_hours = 150 /\ a.service_type = "OIL_CHANGE") =>
                 /\ r.labor_cost = 11250
                 /\ r.subtotal = 16250
                 /\ r.tax = 1300
                 /\ r.estimated_total = 17550

\* FULL_SERVICE, 1 hour, weekend and urgent, parts 12.40: subtotal 387.40,
\* weekend surcharge 58.11, pre-tax 495.51, total 535.15
C11_Witness ==
    /\ CallOf("calculate_service_cost")
    /\ request[1].args = [service_type |-> "FULL_SERVICE", estimated_hours |-> 100,
                          is_weekend |-> TRUE, is_urgent |-> TRUE,
                          additional_parts_cost |-> 1240]
    /\ returned[1].estimated_total = 53515

\* C12: the estimated_total does not decrease when hours are increased, when
\* the parts cost is increased, when is_weekend goes from false to true, or
\* when is_urgent goes from false to true, the other arguments held fixed,
\* for all arguments calculate_service_cost accepts.
C12_CostIsMonotone ==
    (CallOf("calculate_service_cost") /\ ~Raised(returned[1])) =>
      LET a == request[1].args
          total == returned[1].estimated_total
      IN  /\ \A h \in CostHours :
                 (h >= a.estimated_hours
                     /\ [a EXCEPT !.estimated_hours = h] \in CostArgs) =>
                     Cost([a EXCEPT !.estimated_hours = h]).estimated_total >= total
          /\ \A p \in CostParts :
                 p >= a.additional_parts_cost =>
                     Cost([a EXCEPT !.additional_parts_cost = p]).estimated_total >= total
          /\ [a EXCEPT !.is_weekend = TRUE] \in CostArgs =>
                 Cost([a EXCEPT !.is_weekend = TRUE]).estimated_total >= total
          /\ Cost([a EXCEPT !.is_urgent = TRUE]).estimated_total >= total

\* C13: calculate_bulk_discount applies 0% below 2 services, 5% for 2, 10%
\* for 3 and 4, 15% from 5 on, and for every total_cost it accepts the
\* final_cost does not grow with the number of services.
C13_BulkDiscountTiersAndMonotone ==
    CallOf("calculate_bulk_discount") =>
      LET a == request[1].args
          r == returned[1]
          n == a.num_services
      IN  /\ r.discount_rate = (CASE n < 2 -> 0 [] n = 2 -> 5
                                  [] n \in {3, 4} -> 10 [] n >= 5 -> 15)
          /\ \A n2 \in BulkCounts :
                 n <= n2 =>
                     calculate_bulk_discount(a.total_cost, n2).final_cost
                         <= r.final_cost

\* C14: a service type that is not a key of the price table gets a normal
\* itemized result from a base price of 100.00, and a normal duration
\* result of 1.0 hour; neither call raises.
C14_UnknownTypeDefaults ==
    /\ (CallOf("calculate_service_cost")
            /\ request[1].args.service_type \notin DOMAIN BASE_PRICES) =>
           /\ ~Raised(returned[1])
           /\ returned[1].base_service_cost = 10000
    /\ (CallOf("estimate_service_duration")
            /\ request[1].args.service_type \notin DOMAIN durations) =>
           /\ ~Raised(returned[1])
           /\ returned[1].estimated_duration_hours = 100

\* ------------------------------------------------------- Validator calls
EligibilityTypes == ServiceType \cup {"CAR_WASH"}
Mileages == {0} \cup {k * 1000 - d : k \in 1..MaxThousands, d \in 0..1}

\* the ten digits 201 555 0199, repeated from the start beyond ten
PhoneDigits == <<"2", "0", "1", "5", "5", "5", "0", "1", "9", "9">>
PhoneBody(n) == [i \in 1..n |-> PhoneDigits[((i - 1) % 10) + 1]]
PhoneHeads == {<<>>, <<"+">>, <<"1">>, <<"+", "1">>, <<"+", "+">>,
               <<"+", "1", "1">>, <<"1", "+">>, <<"x">>}
PhoneStyles == {"plain", "dashes", "parentheses", "dots"}
PhoneLengths == (MaxPhoneDigits - 3)..MaxPhoneDigits

\* how the caller writes head and body down: 2015550199, 201-555-0199,
\* (201) 555-0199 or 201.555.0199, the head first and a space after it
PhoneText(head, body, style) ==
    LET a == SubSeq(body, 1, 3)
        b == SubSeq(body, 4, 6)
        c == SubSeq(body, 7, Len(body))
    IN  CASE style = "plain" -> head \o body
          [] style = "dashes" -> head \o <<" ">> \o a \o <<"-">> \o b \o <<"-">> \o c
          [] style = "parentheses" ->
                 head \o <<" ", "(">> \o a \o <<")", " ">> \o b \o <<"-">> \o c
          [] style = "dots" -> head \o a \o <<".">> \o b \o <<".">> \o c

PhoneInputs ==
    {PhoneText(head, PhoneBody(n), style) :
        head \in PhoneHeads, n \in PhoneLengths, style \in PhoneStyles}

call_validate_service_eligibility ==
    \E vehicle_mileage \in Mileages, last_service_mileage \in Mileages,
       service_type \in EligibilityTypes :
        /\ Idle
        /\ request' = <<[fn |-> "validate_service_eligibility",
                         args |-> [vehicle_mileage |-> vehicle_mileage,
                                   last_service_mileage |-> last_service_mileage,
                                   service_type |-> service_type]]>>
        /\ returned' = <<validate_service_eligibility(vehicle_mileage,
                             last_service_mileage, service_type)>>
        /\ UNCHANGED Services

call_validate_phone_number ==
    \E phone \in PhoneInputs :
        /\ Idle
        /\ request' = <<[fn |-> "validate_phone_number",
                         args |-> [phone |-> phone]]>>
        /\ returned' = <<validate_phone_number(phone)>>
        /\ UNCHANGED Services

ValidatorNext ==
    \/ call_validate_service_eligibility
    \/ call_validate_phone_number
    \/ take_result

ValidatorSpec == PureInit /\ [][ValidatorNext]_vars

\* C15: for each service type of the interval table (OIL_CHANGE 3000,
\* TIRE_ROTATION 5000, BRAKE_SERVICE 10000, ENGINE_DIAGNOSTIC 0,
\* FULL_SERVICE 10000, GENERAL_REPAIR 0) and all mileages, the vehicle is
\* reported eligible iff current - last >= interval, and an ineligible one
\* is told exactly interval - (current - last) miles, a positive number.
C15_EligibleIffIntervalDriven ==
    (CallOf("validate_service_eligibility")
        /\ request[1].args.service_type \in ServiceType) =>
      LET a == request[1].args
          r == returned[1]
          t == a.service_type
          interval == CASE t = "OIL_CHANGE" -> 3000
                        [] t = "TIRE_ROTATION" -> 5000
                        [] t \in {"BRAKE_SERVICE", "FULL_SERVICE"} -> 10000
                        [] t \in {"ENGINE_DIAGNOSTIC", "GENERAL_REPAIR"} -> 0
          driven == a.vehicle_mileage - a.last_service_mileage
      IN  /\ r.is_eligible <=> driven >= interval
          /\ ~r.is_eligible =>
                 /\ r.message.miles = <<interval - driven>>
                 /\ r.message.miles[1] > 0

\* OIL_CHANGE one mile short of its interval
C15_Witness ==
    /\ CallOf("validate_service_eligibility")
    /\ request[1].args = [vehicle_mileage |-> 2999, last_service_mileage |-> 0,
                          service_type |-> "OIL_CHANGE"]
    /\ ~returned[1].is_eligible
    /\ returned[1].message.miles = <<1>>

\* C16: validate_service_eligibility called with a service type that is not
\* in its interval table reports a failure, it does not take a default
\* interval and report the vehicle eligible.
C16_UnknownTypeIsNotEligible ==
    (CallOf("validate_service_eligibility")
        /\ request[1].args.service_type \notin DOMAIN mileage_requirements) =>
      ~returned[1].is_eligible

\* C17: with whitespace, hyphens and parentheses removed, a phone number is
\* accepted iff what remains is 10 digits, or "1" and 10 digits, or "+1" and
\* 10 digits; the cleaned_phone of an accepted number is made of digits.
C17_PhoneIsTenDigitsWithOptionalPrefix ==
    CallOf("validate_phone_number") =>
      LET r == returned[1]
          rest == SelectSeq(request[1].args.phone,
                            LAMBDA c : c \notin {" ", "\t", "\n", "-", "(", ")"})
          n == Len(rest)
          accepted ==
              \/ n = 10 /\ AllDigits(rest)
              \/ n = 11 /\ rest[1] = "1" /\ AllDigits(Tail(rest))
              \/ n = 12 /\ rest[1] = "+" /\ rest[2] = "1"
                        /\ AllDigits(SubSeq(rest, 3, n))
      IN  /\ r.is_valid <=> accepted
          /\ r.is_valid => AllDigits(r.cleaned_phone)

\* ------------------------------------------------- ReportGenerator calls
ReportDates == {[y |-> 2026, m |-> 11, d |-> 5], [y |-> 2026, m |-> 12, d |-> 1],
                [y |-> 2025, m |-> 11, d |-> 30], [y |-> 2026, m |-> 11, d |-> 31]}
ReportMonths == {<<11, 2026>>, <<12, 2026>>}

\* <<actual_cost, estimated_cost>> of a booking
ReportCosts == {<<NoKey, 17550>>, <<NoneCost, 17550>>, <<0, 17550>>,
                <<12000, 17550>>, <<NoneCost, NoneCost>>}

\* OIL_CHANGE bookings of 5 November 2026 with every pair of costs, pending
\* or completed, and one cancelled; bookings with both costs recorded of the
\* other dates and of another service type
ReportBookings ==
    {[status |-> status, service_type |-> "OIL_CHANGE",
      actual_cost |-> cost[1], estimated_cost |-> cost[2],
      booking_date |-> [y |-> 2026, m |-> 11, d |-> 5]] :
        status \in {"PENDING", "COMPLETED"}, cost \in ReportCosts}
    \cup {[status |-> "CANCELLED", service_type |-> "OIL_CHANGE",
           actual_cost |-> NoneCost, estimated_cost |-> 17550,
           booking_date |-> [y |-> 2026, m |-> 11, d |-> 5]]}
    \cup {[status |-> "PENDING", service_type |-> "OIL_CHANGE",
           actual_cost |-> 12000, estimated_cost |-> 17550,
           booking_date |-> date] : date \in ReportDates}
    \cup {[status |-> "PENDING", service_type |-> "FULL_SERVICE",
           actual_cost |-> 12000, estimated_cost |-> 17550,
           booking_date |-> [y |-> 2026, m |-> 11, d |-> 5]]}
ReportLists == UNION {[1..n -> ReportBookings] : n \in 0..MaxReportLen}

call_generate_booking_summary_report ==
    \E bookings \in ReportLists :
        /\ Idle
        /\ request' = <<[fn |-> "generate_booking_summary_report",
                         args |-> [bookings |-> bookings]]>>
        /\ returned' = <<generate_booking_summary_report(bookings)>>
        /\ UNCHANGED Services

call_generate_service_center_performance ==
    \E bookings \in ReportLists :
        /\ Idle
        /\ request' = <<[fn |-> "generate_service_center_performance",
                         args |-> [bookings |-> bookings]]>>
        /\ returned' = <<generate_service_center_performance(bookings)>>
        /\ UNCHANGED Services

call_generate_customer_service_history ==
    \E bookings \in ReportLists :
        /\ Idle
        /\ request' = <<[fn |-> "generate_customer_service_history",
                         args |-> [bookings |-> bookings]]>>
        /\ returned' = <<generate_customer_service_history(bookings)>>
        /\ UNCHANGED Services

call_generate_monthly_report ==
    \E bookings \in ReportLists, month_year \in ReportMonths :
        /\ Idle
        /\ request' = <<[fn |-> "generate_monthly_report",
                         args |-> [month |-> month_year[1], year |-> month_year[2],
                                   bookings |-> bookings]]>>
        /\ returned' = <<generate_monthly_report(month_year[1], month_year[2],
                                                 bookings)>>
        /\ UNCHANGED Services

ReportNext ==
    \/ call_generate_booking_summary_report
    \/ call_generate_service_center_performance
    \/ call_generate_monthly_report
    \/ call_generate_customer_service_history
    \/ take_result

ReportSpec == PureInit /\ [][ReportNext]_vars

\* a cost is present when the booking has the key and it does not hold None
Present(cost) == cost \notin {NoKey, NoneCost}
Total(bookings, amount(_)) ==
    LET partial[i \in 0..Len(bookings)] ==
            IF i = 0 THEN 0 ELSE partial[i - 1] + amount(bookings[i])
    IN  partial[Len(bookings)]
ActualElseEstimated(b) ==
    IF Present(b.actual_cost) THEN b.actual_cost
    ELSE IF Present(b.estimated_cost) THEN b.estimated_cost ELSE 0
ActualOfCompleted(b) ==
    IF b.status = "COMPLETED" /\ Present(b.actual_cost) THEN b.actual_cost ELSE 0
HowMany(bookings, status) ==
    Cardinality({i \in 1..Len(bookings) : bookings[i].status = status})

\* C18: over a non-empty collection the booking summary has total_revenue =
\* the sum of actual_cost where an actual_cost is present and of
\* estimated_cost only where it is absent (0 when both are), total_bookings
\* = the size of the collection and average_booking_value = total_revenue /
\* total_bookings.
C18_SummaryRevenuePrefersActualCost ==
    (CallOf("generate_booking_summary_report")
        /\ request[1].args.bookings # <<>>) =>
      LET bookings == request[1].args.bookings
          r == returned[1]
      IN  /\ ~Raised(r)
          /\ r.report # <<>>
          /\ r.report[1].summary.total_bookings = Len(bookings)
          /\ r.report[1].summary.total_revenue = Total(bookings, ActualElseEstimated)
          /\ r.report[1].summary.average_booking_value =
                 RoundDiv(Total(bookings, ActualElseEstimated), Len(bookings))

\* C19: the monthly report is the booking summary of the bookings whose
\* booking_date falls in the month and year asked for: same total_bookings,
\* total_revenue and average_booking_value, same histograms by status and
\* by service type.
C19_MonthlyReportIsSummaryOfMonth ==
    CallOf("generate_monthly_report") =>
      LET a == request[1].args
          in_month == SelectSeq(a.bookings,
                          LAMBDA b : /\ b.booking_date.y = a.year
                                     /\ b.booking_date.m = a.month
                                     /\ b.booking_date.d \in 1..DaysInMonth(a.year, a.month))
          s == generate_booking_summary_report(in_month)
          r == returned[1]
      IN  /\ ~Raised(r)
          /\ r.report = <<>> <=> s.report = <<>>
          /\ r.report # <<>> =>
                 /\ r.report[1].total_bookings = s.report[1].summary.total_bookings
                 /\ r.report[1].total_revenue = s.report[1].summary.total_revenue
                 /\ r.report[1].average_booking_value =
                        s.report[1].summary.average_booking_value
                 /\ {"by_status", "by_service_type"} \subseteq DOMAIN r.report[1]
                 /\ r.report[1].by_status = s.report[1].by_status
                 /\ r.report[1].by_service_type = s.report[1].by_service_type

\* C20: over a non-empty collection the service center performance has
\* completion_rate = 100 * #COMPLETED / total and cancellation_rate = 100 *
\* #CANCELLED / total, together at most 100, total_revenue = the sum of
\* actual_cost over the COMPLETED bookings (0 for one without actual_cost)
\* and the average revenue = total_revenue / #COMPLETED.
C20_PerformanceRatesAndCompletedRevenue ==
    (CallOf("generate_service_center_performance")
        /\ request[1].args.bookings # <<>>) =>
      LET bookings == request[1].args.bookings
          r == returned[1]
          total == Len(bookings)
          completed == HowMany(bookings, "COMPLETED")
          cancelled == HowMany(bookings, "CANCELLED")
          revenue == Total(bookings, ActualOfCompleted)
      IN  /\ ~Raised(r)
          /\ r.report # <<>>
          /\ r.report[1].completion_rate = RoundDiv(100 * 100 * completed, total)
          /\ r.report[1].cancellation_rate = RoundDiv(100 * 100 * cancelled, total)
          /\ r.report[1].completion_rate + r.report[1].cancellation_rate <= 100 * 100
          /\ r.report[1].total_revenue = revenue
          /\ completed > 0 =>
                 r.report[1].average_revenue_per_booking = RoundDiv(revenue, completed)

\* C21: no report operation fails on a zero denominator: every reducer
\* called with an empty collection, the monthly report with no booking in
\* the month and the performance report with no COMPLETED booking return a
\* success result whose report is empty or has 0 for the affected average or
\* rate, and no call raises a division error.
Reducers == {"generate_booking_summary_report", "generate_customer_service_history",
             "generate_service_center_performance", "generate_monthly_report"}
C21_NoZeroDenominator ==
    (request # <<>> /\ request[1].fn \in Reducers) =>
      LET a == request[1].args
          r == returned[1]
          none_in_month ==
              /\ request[1].fn = "generate_monthly_report"
              /\ \A i \in 1..Len(a.bookings) :
                     ~(a.bookings[i].booking_date.y = a.year
                          /\ a.bookings[i].booking_date.m = a.month
                          /\ a.bookings[i].booking_date.d
                                 \in 1..DaysInMonth(a.year, a.month))
          none_completed ==
              /\ request[1].fn = "generate_service_center_performance"
              /\ a.bookings # <<>>
              /\ HowMany(a.bookings, "COMPLETED") = 0
      IN  /\ Raised(r) => r.exception # "ZeroDivisionError"
          /\ (a.bookings = <<>> \/ none_in_month) =>
                 /\ ~Raised(r)
                 /\ r.status = "success"
                 /\ r.report = <<>>
          /\ none_completed =>
                 /\ ~Raised(r)
                 /\ r.status = "success"
                 /\ r.report[1].completion_rate = 0
                 /\ r.report[1].total_revenue = 0
                 /\ r.report[1].average_revenue_per_booking = 0

\* a performance report over two bookings, none of them COMPLETED
C21_Witness ==
    /\ CallOf("generate_service_center_performance")
    /\ Len(request[1].args.bookings) = 2
    /\ HowMany(request[1].args.bookings, "COMPLETED") = 0
    /\ HowMany(request[1].args.bookings, "CANCELLED") = 1
    /\ returned[1].report[1].cancellation_rate = 5000
    /\ returned[1].report[1].average_revenue_per_booking = 0

\* =================================================== concurrent callers
\* One POST /bookings/, one PUT and one DELETE /bookings/{id} run at the
\* same time; a step is one call to the bookings table together with the
\* code of the handler up to the next such call.
Callers == {"creator", "updater", "deleter"}
RequiredFields == {"customer_id", "vehicle_id", "service_center_id",
                   "service_type", "booking_date", "scheduled_time"}

\* Booking(**attributes) raises ValidationError when a required field lacks
BookingIsValid(attributes) == RequiredFields \subseteq DOMAIN attributes

\* table.update_item(Key=..., UpdateExpression="SET ..."), sent without a
\* ConditionExpression: DynamoDB creates the item when the key is not there
dynamo_update_item(tbl, booking_id, update_data) ==
    IF booking_id \in DOMAIN tbl
    THEN [tbl EXCEPT ![booking_id] = update_item(tbl[booking_id], update_data)]
    ELSE put_item(tbl, update_item([booking_id |-> booking_id], update_data))

Goto(p, position) == pc' = [pc EXCEPT ![p] = position]
Done == [at |-> "done"]

ConcInit ==
    /\ now = NowStart
    /\ rule_name_prefix = DefaultRuleName
    /\ faults = FALSE
    /\ table = [i \in {} |-> 0]
    /\ next_id = 0
    /\ sqs = EmptyBag
    /\ sns = EmptyBag
    /\ rules = {}
    /\ scheduler_log = EmptyBag
    /\ resp = [op |-> "none", booking_id |-> NoId, status_code |-> 0]
    /\ returned = <<>>
    /\ calls = <<>>
    /\ request = <<>>
    /\ validation = NoValidation
    /\ pc = [p \in Callers |-> [at |-> "idle"]]
    /\ entities = NoEntities

\* create_booking up to BookingCRUD.create_booking's put_item
creator_create ==
    \E customer_id \in CustomerIds, service_type \in ReqServiceTypes,
       date_time \in ReqDateTimes :
      LET booking_data == [customer_id |-> customer_id, vehicle_id |-> "v1",
                           service_center_id |-> "s1",
                           service_type |-> service_type,
                           booking_date |-> date_time[1],
                           scheduled_time |-> date_time[2], notes |-> ""]
          v == validate_booking_date(date_time[1], date_time[2], now)
          booking == crud_create_booking(next_id + 1, booking_data)
      IN  /\ pc["creator"].at = "idle"
          /\ next_id < MaxBookings
          /\ v.is_valid
          /\ table' = put_item(table, booking)
          /\ next_id' = next_id + 1
          /\ Goto("creator", [at |-> "created", booking |-> booking])
          /\ UNCHANGED <<entities, now, rule_name_prefix, faults, sqs, sns, rules,
                         scheduler_log, resp, returned, calls, request,
                         validation>>

\* BookingCRUD.update_booking, line 71: the booking is read first
creator_get ==
    /\ pc["creator"].at = "created"
    /\ Goto("creator",
            [at |-> IF pc["creator"].booking.booking_id \in DOMAIN table
                    THEN "got" ELSE "updated",
             booking |-> pc["creator"].booking])
    /\ UNCHANGED <<entities, now, rule_name_prefix, faults, table, next_id, sqs, sns,
                   rules, scheduler_log, resp, returned, calls, request,
                   validation>>

\* BookingCRUD.update_booking, lines 76-92
creator_update ==
    LET booking == pc["creator"].booking
        cost_estimate == calculate_service_cost(booking.service_type,
                             DefaultEstimatedHours, FALSE, FALSE, 0)
        updated == dynamo_update_item(table, booking.booking_id,
                       BookingUpdate([f \in {"estimated_cost"} |->
                                         cost_estimate.estimated_total]))
    IN  /\ pc["creator"].at = "got"
        /\ table' = updated
        /\ IF BookingIsValid(updated[booking.booking_id])
           THEN /\ Goto("creator", [at |-> "updated", booking |-> booking])
                /\ UNCHANGED <<resp, returned>>
           ELSE /\ Goto("creator", Done)
                /\ resp' = Response("create_booking", booking.booking_id, 500)
                /\ returned' = <<>>
        /\ UNCHANGED <<entities, now, rule_name_prefix, faults, next_id, sqs, sns, rules,
                       scheduler_log, calls, request, validation>>

\* create_booking, lines 45-65: the three side effects and the answer
creator_side_effects ==
    LET booking == pc["creator"].booking
        queued == enqueue_booking_request(sqs,
                      [booking_id |-> booking.booking_id,
                       customer_id |-> booking.customer_id,
                       service_type |-> booking.service_type], TRUE)
        confirmed == send_booking_confirmation(sns, booking, TRUE)
        reminder == schedule_booking_reminder(rules, rule_name_prefix,
                        booking.booking_id, booking.booking_date,
                        booking.scheduled_time, TRUE)
    IN  /\ pc["creator"].at = "updated"
        /\ sqs' = queued.queue
        /\ sns' = confirmed.topic
        /\ rules' = reminder.rules
        /\ scheduler_log' = Put(scheduler_log,
              [call |-> "schedule_booking_reminder",
               booking_id |-> booking.booking_id,
               rule_name |-> reminder.rule_name,
               reminder_datetime |-> reminder.reminder_datetime])
        /\ resp' = Response("create_booking", booking.booking_id, 200)
        /\ returned' = <<booking>>
        /\ Goto("creator", Done)
        /\ UNCHANGED <<entities, now, rule_name_prefix, faults, table, next_id, calls,
                       request, validation>>

\* PUT /bookings/{booking_id}: BookingCRUD.update_booking, line 71
updater_get ==
    \E booking_id \in BookingIds, kwargs \in UpdateRequests :
        /\ pc["updater"].at = "idle"
        /\ IF booking_id \in DOMAIN table
           THEN /\ Goto("updater", [at |-> "got", booking_id |-> booking_id,
                                    kwargs |-> kwargs])
                /\ UNCHANGED <<resp, returned>>
           ELSE /\ Goto("updater", Done)
                /\ resp' = Response("update_booking", booking_id, 404)
                /\ returned' = <<>>
        /\ UNCHANGED <<entities, now, rule_name_prefix, faults, table, next_id, sqs, sns,
                       rules, scheduler_log, calls, request, validation>>

\* BookingCRUD.update_booking, lines 76-92
updater_update ==
    LET booking_id == pc["updater"].booking_id
        updated == dynamo_update_item(table, booking_id,
                                      BookingUpdate(pc["updater"].kwargs))
    IN  /\ pc["updater"].at = "got"
        /\ table' = updated
        /\ IF BookingIsValid(updated[booking_id])
           THEN /\ resp' = Response("update_booking", booking_id, 200)
                /\ returned' = <<updated[booking_id]>>
           ELSE /\ resp' = Response("update_booking", booking_id, 500)
                /\ returned' = <<>>
        /\ Goto("updater", Done)
        /\ UNCHANGED <<entities, now, rule_name_prefix, faults, next_id, sqs, sns, rules,
                       scheduler_log, calls, request, validation>>

\* DELETE /bookings/{booking_id}, lines 91-93
deleter_get ==
    \E booking_id \in BookingIds :
        /\ pc["deleter"].at = "idle"
        /\ IF booking_id \in DOMAIN table
           THEN /\ Goto("deleter", [at |-> "got", booking |-> table[booking_id]])
                /\ UNCHANGED <<resp, returned>>
           ELSE /\ Goto("deleter", Done)
                /\ resp' = Response("delete_booking", booking_id, 404)
                /\ returned' = <<>>
        /\ UNCHANGED <<entities, now, rule_name_prefix, faults, table, next_id, sqs, sns,
                       rules, scheduler_log, calls, request, validation>>

\* DELETE /bookings/{booking_id}, lines 95-108
deleter_delete ==
    LET booking == pc["deleter"].booking
        rule_name == RuleName(DefaultRuleName, booking.booking_id)
        notice == send_cancellation_notification(sns, booking, TRUE)
        cancelled == cancel_scheduled_event(rules, rule_name, TRUE)
    IN  /\ pc["deleter"].at = "got"
        /\ sns' = notice.topic
        /\ rules' = cancelled.rules
        /\ scheduler_log' = Put(scheduler_log,
              [call |-> "cancel_scheduled_event",
               booking_id |-> booking.booking_id,
               rule_name |-> rule_name,
               reminder_datetime |-> 0])
        /\ table' = delete_item(table, booking.booking_id)
        /\ resp' = Response("delete_booking", booking.booking_id, 200)
        /\ returned' = <<>>
        /\ Goto("deleter", Done)
        /\ UNCHANGED <<entities, now, rule_name_prefix, faults, next_id, sqs, calls,
                       request, validation>>

ConcNext ==
    \/ creator_create
    \/ creator_get
    \/ creator_update
    \/ creator_side_effects
    \/ updater_get
    \/ updater_update
    \/ deleter_get
    \/ deleter_delete

ConcSpec == ConcInit /\ [][ConcNext]_vars

\* C22: whatever the interleaving of a concurrent update_booking and
\* delete_booking, or of create_booking's create-then-update with a delete,
\* on one booking id, the stored booking is either absent or a complete
\* record with all required fields: a deleted booking is never partly
\* re-created by the update.
C22_StoredBookingsAreComplete ==
    \A booking_id \in DOMAIN table :
        RequiredFields \subseteq DOMAIN table[booking_id]

\* =================================================== the entity routes
\* api/customer_routes.py, api/vehicle_routes.py and
\* api/service_center_routes.py over their CRUD classes, next to the
\* booking routes that address a booking by id.
MaxEntities == 1

EntityIds == 1..MaxEntities

\* A registration number and a VIN are the sequences of their characters.
UpperCase ==
    <<"A", "B", "C", "D", "E", "F", "G", "H", "I", "J", "K", "L", "M",
      "N", "O", "P", "Q", "R", "S", "T", "U", "V", "W", "X", "Y", "Z">>
LowerCase ==
    <<"a", "b", "c", "d", "e", "f", "g", "h", "i", "j", "k", "l", "m",
      "n", "o", "p", "q", "r", "s", "t", "u", "v", "w", "x", "y", "z">>
Letters == {UpperCase[k] : k \in 1..Len(UpperCase)}

\* str.upper()
upper(text) ==
    [i \in 1..Len(text) |->
        IF \E k \in 1..Len(LowerCase) : LowerCase[k] = text[i]
        THEN UpperCase[CHOOSE k \in 1..Len(LowerCase) : LowerCase[k] = text[i]]
        ELSE text[i]]

\* re.match(r'^[A-Z]{2,3}-?\d{4,6}$', text)
re_match_registration(text) ==
    \E letters \in 2..3, dash \in 0..1, digits \in 4..6 :
        /\ Len(text) = letters + dash + digits
        /\ \A i \in 1..letters : text[i] \in Letters
        /\ dash = 1 => text[letters + 1] = "-"
        /\ AllDigits(SubSeq(text, letters + dash + 1, Len(text)))

validate_vehicle_registration(registration_number) ==
    LET is_valid == re_match_registration(upper(registration_number))
    IN  [is_valid |-> is_valid,
         registration_number |-> upper(registration_number),
         message |-> IF is_valid THEN "Valid registration number"
                     ELSE "Invalid registration number format"]

\* re.match(r'^[A-HJ-NPR-Z0-9]{17}$', text)
VinCharacters == (Letters \ {"I", "O", "Q"}) \cup Digits
re_match_vin(text) ==
    /\ Len(text) = 17
    /\ \A i \in 1..Len(text) : text[i] \in VinCharacters

\* the empty sequence stands for a VIN that is None or ''
validate_vin(vin) ==
    LET is_valid == IF vin # <<>> THEN re_match_vin(upper(vin)) ELSE FALSE
    IN  [is_valid |-> is_valid,
         vin |-> IF vin # <<>> THEN upper(vin) ELSE <<>>,
         message |-> IF is_valid THEN "Valid VIN"
                     ELSE "Invalid VIN format (must be 17 characters, alphanumeric)"]

\* ---------------------------------------- the CRUD classes of the entities
IdField(kind) ==
    CASE kind = "customer" -> "customer_id"
      [] kind = "vehicle" -> "vehicle_id"
      [] kind = "service_center" -> "service_center_id"

\* table.get_item(Key=...): the row when 'Item' is in the response
crud_get(kind, id) ==
    IF id \in DOMAIN entities[kind].rows
    THEN <<entities[kind].rows[id]>> ELSE <<>>

\* uuid4, then put_item of the new row
crud_create(kind, data) ==
    LET id == entities[kind].issued + 1
        row == [f \in (DOMAIN data) \cup {IdField(kind)} |->
                   IF f = IdField(kind) THEN id ELSE data[f]]
    IN  [row |-> row,
         entities |-> [entities EXCEPT
             ![kind] = [rows |-> [i \in (DOMAIN @.rows) \cup {id} |->
                                     IF i = id THEN row ELSE @.rows[i]],
                        issued |-> id]]]

\* get_item, None when the row is missing, else update_item of the fields set
crud_update(kind, id, update_data) ==
    IF id \notin DOMAIN entities[kind].rows
    THEN [row |-> <<>>, entities |-> entities]
    ELSE LET row == update_item(entities[kind].rows[id], update_data)
         IN  [row |-> <<row>>,
              entities |-> [entities EXCEPT ![kind].rows[id] = row]]

\* delete_item(Key=...) in a try: True unless the client raised; the store
\* accepts the deletion of a key it does not hold
crud_delete(kind, id, ok) ==
    IF ok
    THEN [success |-> TRUE,
          entities |-> [entities EXCEPT
              ![kind].rows = [i \in (DOMAIN @) \ {id} |-> @[i]]]]
    ELSE [success |-> FALSE, entities |-> entities]

\* ---------------------------------------------------------- the routes
EntityResponse(op, kind, id, status_code) ==
    [op |-> op, kind |-> kind, id |-> id, status_code |-> status_code]

\* what a route of these routers leaves alone
Answered ==
    /\ request' = <<>>
    /\ validation' = NoValidation
    /\ UNCHANGED <<pc, now, rule_name_prefix, faults, table, next_id, sqs, sns,
                   rules, scheduler_log>>

\* GET /{kind}/{id}
get_entity(op, kind) ==
    \E id \in EntityIds :
        LET row == crud_get(kind, id)
        IN  /\ resp' = EntityResponse(op, kind, id,
                                      IF row = <<>> THEN 404 ELSE 200)
            /\ returned' = row
            /\ calls' = <<Call("get_item", "success")>>
            /\ UNCHANGED entities
            /\ Answered

\* PUT /{kind}/{id}
update_entity(op, kind, update_data) ==
    \E id \in EntityIds :
        LET updated == crud_update(kind, id, update_data)
        IN  /\ resp' = EntityResponse(op, kind, id,
                                      IF updated.row = <<>> THEN 404 ELSE 200)
            /\ returned' = updated.row
            /\ calls' = IF updated.row = <<>>
                        THEN <<Call("get_item", "success")>>
                        ELSE <<Call("get_item", "success"),
                               Call("update_item", "success")>>
            /\ entities' = updated.entities
            /\ Answered

\* DELETE /{kind}/{id}: no look-up before the deletion
delete_entity(op, kind) ==
    \E id \in EntityIds, delete_ok \in ClientOutcomes :
        LET deleted == crud_delete(kind, id, delete_ok)
        IN  /\ resp' = EntityResponse(op, kind, id,
                                      IF ~deleted.success THEN 500 ELSE 200)
            /\ returned' = <<>>
            /\ calls' = <<Call("delete_item",
                               IF delete_ok THEN "success" ELSE "error")>>
            /\ entities' = deleted.entities
            /\ Answered

\* POST /{kind}/ once the route's validations passed
create_entity(op, kind, data, rejected) ==
    LET created == crud_create(kind, data)
    IN  /\ entities[kind].issued < MaxEntities
        /\ IF rejected
           THEN /\ resp' = EntityResponse(op, kind, NoId, 400)
                /\ returned' = <<>>
                /\ calls' = <<>>
                /\ UNCHANGED entities
           ELSE /\ resp' = EntityResponse(op, kind, created.row[IdField(kind)], 200)
                /\ returned' = <<created.row>>
                /\ calls' = <<Call("put_item", "success")>>
                /\ entities' = created.entities
        /\ Answered

CustomerPhones == {PhoneBody(10), PhoneBody(9)}
Registrations == {<<"a", "b", "-", "1", "2", "3", "4">>,
                  <<"A", "-", "1", "2", "3", "4">>}
ValidVin == [i \in 1..17 |-> IF i = 1 THEN "w" ELSE "7"]
Vins == {<<>>, ValidVin, <<"I">> \o SubSeq(ValidVin, 2, 17)}
VehicleMileages == {1000}
CenterNames == {"north", "south"}

create_customer ==
    \E phone \in CustomerPhones :
        create_entity("create_customer", "customer", [phone |-> phone],
                      ~validate_phone_number(phone).is_valid)
get_customer == get_entity("get_customer", "customer")
update_customer ==
    \E phone \in CustomerPhones :
        update_entity("update_customer", "customer", [phone |-> phone])
delete_customer == delete_entity("delete_customer", "customer")

create_vehicle ==
    \E customer_id \in CustomerIds, registration_number \in Registrations,
       vin \in Vins :
        create_entity("create_vehicle", "vehicle",
            [customer_id |-> customer_id,
             registration_number |-> registration_number,
             vin |-> vin, mileage |-> 0],
            \/ ~validate_vehicle_registration(registration_number).is_valid
            \/ vin # <<>> /\ ~validate_vin(vin).is_valid)
get_vehicle == get_entity("get_vehicle", "vehicle")
update_vehicle ==
    \E mileage \in VehicleMileages :
        update_entity("update_vehicle", "vehicle", [mileage |-> mileage])
delete_vehicle == delete_entity("delete_vehicle", "vehicle")

create_service_center ==
    \E name \in CenterNames :
        create_entity("create_service_center", "service_center",
                      [name |-> name], FALSE)
get_service_center == get_entity("get_service_center", "service_center")
update_service_center ==
    \E name \in CenterNames :
        update_entity("update_service_center", "service_center", [name |-> name])
delete_service_center == delete_entity("delete_service_center", "service_center")

EntityNext ==
    \/ create_customer
    \/ get_customer
    \/ update_customer
    \/ delete_customer
    \/ create_vehicle
    \/ get_vehicle
    \/ update_vehicle
    \/ delete_vehicle
    \/ create_service_center
    \/ get_service_center
    \/ update_service_center
    \/ delete_service_center
    \/ get_booking
    \/ update_booking
    \/ delete_booking

EntitySpec == Init /\ [][EntityNext]_vars

\* the operations that address a record by id
AddressingOps ==
    {"get_customer", "update_customer", "delete_customer",
     "get_vehicle", "update_vehicle", "delete_vehicle",
     "get_service_center", "update_service_center", "delete_service_center",
     "get_booking", "update_booking", "delete_booking"}

\* C23: every route that addresses a customer, vehicle, service center or
\* booking by an id that is not stored answers not-found (404), never
\* success, get, update and delete alike.
C23_UnstoredIdIsNotFound ==
    [][(resp'.op \in AddressingOps) =>
          LET unstored == IF "kind" \in DOMAIN resp'
                          THEN resp'.id \notin DOMAIN entities[resp'.kind].rows
                          ELSE resp'.booking_id \notin DOMAIN table
          IN  unstored => resp'.status_code = 404]_vars

\* ============================================ the routes that scan bookings
\* GET /customers/{customer_id}/service-history, GET /bookings/customer/
\* {customer_id} and GET /bookings/ over a bookings table that earlier
\* requests filled.
MaxScanItems == 2

HistoryCustomers == 1..2

\* what POST /bookings/ and PUT /bookings/{id} can have left of a booking:
\* its estimate, and the actual cost when one was recorded
HistoryProgress ==
    {[status |-> "PENDING", actual_cost |-> NoneCost],
     [status |-> "COMPLETED", actual_cost |-> NoneCost],
     [status |-> "COMPLETED", actual_cost |-> 12000]}

HistoryItem(booking_id, customer_id, progress) ==
    LET booking_data == [customer_id |-> customer_id, vehicle_id |-> "v1",
                         service_center_id |-> "s1",
                         service_type |-> "OIL_CHANGE", booking_date |-> 0,
                         scheduled_time |-> [kind |-> "naive", minute |-> 660],
                         notes |-> ""]
        cost_estimate == calculate_service_cost("OIL_CHANGE",
                             DefaultEstimatedHours, FALSE, FALSE, 0)
    IN  update_item(crud_create_booking(booking_id, booking_data),
                    [estimated_cost |-> cost_estimate.estimated_total,
                     status |-> progress.status,
                     actual_cost |-> progress.actual_cost])

HistoryTables ==
    UNION {{[booking_id \in 1..n |->
                HistoryItem(booking_id, owner[booking_id], progress[booking_id])] :
              owner \in [1..n -> HistoryCustomers],
              progress \in [1..n -> HistoryProgress]} : n \in 0..MaxScanItems}

\* the orders in which a scan may walk the table
ScanOrders(tbl) ==
    {order \in [1..Cardinality(DOMAIN tbl) -> DOMAIN tbl] :
        \A i, k \in DOMAIN order : i # k => order[i] # order[k]}

\* the ways the store may cut a scan of n items into pages: the number of
\* items it reads for each page, every page but the last one ending with a
\* LastEvaluatedKey
ScanSplits(n) ==
    {sizes \in UNION {[1..m -> 1..n] : m \in 0..n} : sum(sizes) = n}

\* a FilterExpression is the sequence of its Attr(attr).eq(value) conditions,
\* empty when the scan has none
Attr_eq(attr, value) == <<[attr |-> attr, eq |-> value]>>
Passes(item, filter) ==
    \A k \in 1..Len(filter) : item[filter[k].attr] = filter[k].eq

\* table.scan(ExclusiveStartKey=..., FilterExpression=...): the items of the
\* page that starts at start_key which pass the filter, and the key of the
\* next page when there is one
scan(tbl, order, sizes, start_key, filter) ==
    LET before == sum(SubSeq(sizes, 1, start_key - 1))
        read == IF start_key <= Len(sizes)
                THEN [i \in 1..sizes[start_key] |-> tbl[order[before + i]]]
                ELSE <<>>
    IN  [Items |-> SelectSeq(read, LAMBDA item : Passes(item, filter)),
         LastEvaluatedKey |-> IF start_key < Len(sizes) THEN start_key + 1
                              ELSE NoKey]

\* Booking(**item).dict(): every field of the model, None for the unset ones
BookingFields ==
    {"booking_id", "customer_id", "vehicle_id", "service_center_id",
     "service_type", "booking_date", "scheduled_time", "status",
     "estimated_cost", "actual_cost", "notes"}
Booking_dict(item) ==
    [f \in BookingFields |-> IF f \in DOMAIN item THEN item[f] ELSE NoneCost]

\* BookingCRUD.get_all_bookings: scans until no LastEvaluatedKey is left
crud_get_all_bookings(tbl, order, sizes) ==
    LET collected[left \in 0..Len(sizes)] ==
            \* the pages from the one left pages before the end onwards
            IF left = 0 THEN <<>>
            ELSE scan(tbl, order, sizes, Len(sizes) - left + 1,
                      <<>>).Items \o collected[left - 1]
    IN  IF sizes = <<>> THEN <<>> ELSE collected[Len(sizes)]

\* BookingCRUD.get_bookings_by_customer: one scan, its first page only
get_bookings_by_customer(tbl, order, sizes, customer_id) ==
    scan(tbl, order, sizes, 1, Attr_eq("customer_id", customer_id)).Items

\* a process started over a table that earlier runs filled, and over a
\* customers table holding the first customer
HistoryInit ==
    /\ faults = FALSE
    /\ rule_name_prefix = DefaultRuleName
    /\ now = NowStart
    /\ table \in HistoryTables
    /\ next_id = Cardinality(DOMAIN table)
    /\ sqs = EmptyBag
    /\ sns = EmptyBag
    /\ rules = {}
    /\ scheduler_log = EmptyBag
    /\ resp = [op |-> "none", booking_id |-> NoId, status_code |-> 0]
    /\ returned = <<>>
    /\ calls = <<>>
    /\ request = <<>>
    /\ validation = NoValidation
    /\ pc = <<>>
    /\ entities = [NoEntities EXCEPT !["customer"] =
           [rows |-> <<[customer_id |-> 1, phone |-> PhoneBody(10)]>>,
            issued |-> 1]]

\* what a route that only reads leaves alone
OnlyRead ==
    /\ validation' = NoValidation
    /\ UNCHANGED <<pc, entities, now, rule_name_prefix, faults, table, next_id,
                   sqs, sns, rules, scheduler_log>>

\* GET /customers/{customer_id}/service-history
get_customer_service_history ==
    \E customer_id \in HistoryCustomers, order \in ScanOrders(table),
       sizes \in ScanSplits(Cardinality(DOMAIN table)) :
        LET customer == crud_get("customer", customer_id)
            bookings == get_bookings_by_customer(table, order, sizes, customer_id)
            bookings_dict == [i \in 1..Len(bookings) |-> Booking_dict(bookings[i])]
            report == generate_customer_service_history(bookings_dict)
            op == "get_customer_service_history"
        IN  /\ request' = <<[fn |-> op, customer_id |-> customer_id,
                             order |-> order, sizes |-> sizes]>>
            /\ IF customer = <<>>
               THEN /\ resp' = EntityResponse(op, "customer", customer_id, 404)
                    /\ returned' = <<>>
                    /\ calls' = <<Call("get_item", "success")>>
               ELSE IF Raised(report)
               THEN /\ resp' = EntityResponse(op, "customer", customer_id, 500)
                    /\ returned' = <<>>
                    /\ calls' = <<Call("get_item", "success"),
                                  Call("scan", "success"),
                                  Call("generate_customer_service_history",
                                       report.exception)>>
               ELSE /\ resp' = EntityResponse(op, "customer", customer_id, 200)
                    /\ returned' = <<report>>
                    /\ calls' = <<Call("get_item", "success"),
                                  Call("scan", "success"),
                                  Call("generate_customer_service_history",
                                       "success")>>
            /\ OnlyRead

\* GET /bookings/customer/{customer_id}
get_customer_bookings ==
    \E customer_id \in HistoryCustomers, order \in ScanOrders(table),
       sizes \in ScanSplits(Cardinality(DOMAIN table)) :
        /\ request' = <<[fn |-> "get_customer_bookings",
                         customer_id |-> customer_id,
                         order |-> order, sizes |-> sizes]>>
        /\ resp' = Response("get_customer_bookings", NoId, 200)
        /\ returned' = <<get_bookings_by_customer(table, order, sizes, customer_id)>>
        /\ calls' = <<Call("scan", "success")>>
        /\ OnlyRead

\* GET /bookings/
get_all_bookings ==
    \E order \in ScanOrders(table),
       sizes \in ScanSplits(Cardinality(DOMAIN table)) :
        /\ request' = <<[fn |-> "get_all_bookings",
                         order |-> order, sizes |-> sizes]>>
        /\ resp' = Response("get_all_bookings", NoId, 200)
        /\ returned' = <<crud_get_all_bookings(table, order, sizes)>>
        /\ calls' = [p \in 1..Len(sizes) |-> Call("scan", "success")]
        /\ OnlyRead

HistoryNext ==
    \/ get_customer_service_history
    \/ get_customer_bookings
    \/ get_all_bookings

HistorySpec == HistoryInit /\ [][HistoryNext]_vars

\* the stored bookings of a customer
BookingsOf(customer_id) ==
    {booking_id \in DOMAIN table : table[booking_id].customer_id = customer_id}
\* what a booking counts for: its actual cost, its estimate when no actual
\* cost is recorded
Spent(booking) ==
    IF booking.actual_cost # NoneCost THEN booking.actual_cost
    ELSE booking.estimated_cost
TotalSpent[S \in SUBSET (1..MaxScanItems)] ==
    IF S = {} THEN 0
    ELSE LET booking_id == CHOOSE i \in S : TRUE
         IN  Spent(table[booking_id]) + TotalSpent[S \ {booking_id}]

\* C24: for every customer with at least one stored booking, the
\* service-history route answers a success report whose total_services is
\* the number of the customer's bookings and whose total_amount_spent is the
\* sum of their actual costs, the estimate standing in where no actual cost
\* is recorded; bookings that are not yet completed included.
C24_ServiceHistoryOfStoredBookings ==
    (/\ resp.op = "get_customer_service_history"
     /\ resp.id \in DOMAIN entities["customer"].rows
     /\ BookingsOf(resp.id) # {})
    => /\ resp.status_code = 200
       /\ returned[1].status = "success"
       /\ returned[1].report # <<>>
       /\ returned[1].report[1].total_services = Cardinality(BookingsOf(resp.id))
       /\ returned[1].report[1].total_amount_spent = TotalSpent[BookingsOf(resp.id)]

\* C25: get_bookings_by_customer returns all the bookings of the customer,
\* the ones a filter of get_all_bookings keeps, for every table content and
\* every way the store cuts the scan into pages.
C25_CustomerBookingsAreAllOfThem ==
    resp.op = "get_customer_bookings" =>
        LET all == crud_get_all_bookings(table, request[1].order, request[1].sizes)
        IN  returned[1] =
                SelectSeq(all, LAMBDA item : item.customer_id = request[1].customer_id)

\* ------------------------------------------------- the reminder's instant
\* C26: for every accepted booking the reminder instant, 24 hours before
\* the scheduled date and time, is not earlier than the time the booking
\* was submitted.
C26_ReminderNotBeforeSubmission ==
    [][(Handled("create_booking") /\ resp'.status_code = 200) =>
          \A e \in Schedulings(scheduler_log', resp'.booking_id) :
              e.reminder_datetime >= now]_vars

\* ====================================== the booking routes with failing clients
\* The same handlers in a run where every call to an AWS client may raise.
FaultInit ==
    /\ faults = TRUE
    /\ InitState
    /\ rule_name_prefix = DefaultRuleName

\* a caller gives up repeating a DELETE that keeps failing
MaxEffects == 3
GivesUp == BagCardinality(scheduler_log) >= MaxEffects

FaultNext ==
    \/ create_booking
    \/ ~GivesUp /\ delete_booking

FaultSpec == FaultInit /\ [][FaultNext]_vars

\* C27: delete_booking sends the cancellation notice and cancels the
\* reminder rule only if the deletion succeeds: when the deletion fails
\* (500) the booking is still stored and no notice and no descheduling was
\* issued.
C27_CancellationOnlyAfterDeletion ==
    [][(Handled("delete_booking") /\ resp'.status_code = 500) =>
          /\ resp'.booking_id \in DOMAIN table'
          /\ sns' = sns
          /\ scheduler_log' = scheduler_log
          /\ rules' = rules]_vars

\* the requests that create and read bookings as time passes, with clients
\* that may raise
AcceptNext ==
    \/ create_booking
    \/ get_booking
    \/ Tick

AcceptSpec == FaultInit /\ [][AcceptNext]_vars

CallsOf(cs) == {cs[i] : i \in 1..Len(cs)}
\* the handler's put_item and update_item both went through
Persisted(cs) ==
    {Call("put_item", "success"), Call("update_item", "success")} \subseteq CallsOf(cs)

\* C30: a failing side effect never undoes or fails an accepted booking:
\* once the request is valid and the booking persisted, create_booking
\* returns that booking and it stays stored whatever the queue, the
\* notification and the scheduler services answer, and the three are
\* attempted in the order enqueue, confirmation, reminder, each after the
\* persistence.
C30_SideEffectsNeverFailBooking ==
    [][(Handled("create_booking") /\ Persisted(calls')) =>
          LET n == Len(calls')
          IN  /\ resp'.status_code = 200
              /\ returned' # <<>>
              /\ returned'[1].booking_id = resp'.booking_id
              /\ resp'.booking_id \in DOMAIN table'
              /\ n >= 5
              /\ calls'[n - 4] = Call("put_item", "success")
              /\ calls'[n - 3] = Call("update_item", "success")
              /\ calls'[n - 2].call = "enqueue_booking_request"
              /\ calls'[n - 1].call = "send_booking_confirmation"
              /\ calls'[n].call = "schedule_booking_reminder"]_vars

\* an accepted booking whose three side effects all failed
C30_Witness ==
    /\ resp.op = "create_booking"
    /\ resp.status_code = 200
    /\ resp.booking_id \in DOMAIN table
    /\ returned # <<>>
    /\ {Call("enqueue_booking_request", "error"),
        Call("send_booking_confirmation", "error"),
        Call("schedule_booking_reminder", "error")} \subseteq CallsOf(calls)

\* ======================================================= the mock application
\* main_mock.py: the same API over four dicts in memory.  entities holds
\* customers_db, vehicles_db and service_centers_db, table holds bookings_db.
MockCenterIds == 1..(MaxEntities + 1)

\* startup_event: one sample service center
MockInit ==
    /\ faults = FALSE
    /\ rule_name_prefix = DefaultRuleName
    /\ now = NowStart
    /\ table = <<>>
    /\ next_id = 0
    /\ sqs = EmptyBag
    /\ sns = EmptyBag
    /\ rules = {}
    /\ scheduler_log = EmptyBag
    /\ resp = [op |-> "none", booking_id |-> NoId, status_code |-> 0]
    /\ returned = <<>>
    /\ calls = <<>>
    /\ request = <<>>
    /\ validation = NoValidation
    /\ pc = <<>>
    /\ entities = [NoEntities EXCEPT !["service_center"] =
           [rows |-> <<[service_center_id |-> 1, name |-> "Quick Auto Service"]>>,
            issued |-> 1]]

\* what a handler of the mock application leaves alone
MockAnswered ==
    /\ request' = <<>>
    /\ validation' = NoValidation
    /\ calls' = <<>>
    /\ UNCHANGED <<pc, now, rule_name_prefix, faults, sqs, sns, rules,
                   scheduler_log>>

\* db[id] = new.dict() under a fresh uuid4
mock_insert(kind, data) ==
    LET id == entities[kind].issued + 1
        row == [f \in (DOMAIN data) \cup {IdField(kind)} |->
                   IF f = IdField(kind) THEN id ELSE data[f]]
    IN  /\ resp' = EntityResponse("create_" \o kind, kind, id, 200)
        /\ returned' = <<row>>
        /\ entities' = [entities EXCEPT
               ![kind] = [rows |-> [i \in (DOMAIN @.rows) \cup {id} |->
                                       IF i = id THEN row ELSE @.rows[i]],
                          issued |-> id]]

\* if id not in db: 404, else the row
mock_get(kind, ids) ==
    \E id \in ids :
        /\ IF id \notin DOMAIN entities[kind].rows
           THEN /\ resp' = EntityResponse("get_" \o kind, kind, id, 404)
                /\ returned' = <<>>
           ELSE /\ resp' = EntityResponse("get_" \o kind, kind, id, 200)
                /\ returned' = <<entities[kind].rows[id]>>
        /\ UNCHANGED <<entities, table, next_id>>
        /\ MockAnswered

\* if id not in db: 404, else del db[id]
mock_delete(kind, ids) ==
    \E id \in ids :
        /\ IF id \notin DOMAIN entities[kind].rows
           THEN /\ resp' = EntityResponse("delete_" \o kind, kind, id, 404)
                /\ UNCHANGED entities
           ELSE /\ resp' = EntityResponse("delete_" \o kind, kind, id, 200)
                /\ entities' = [entities EXCEPT
                       ![kind].rows = [i \in (DOMAIN @) \ {id} |-> @[i]]]
        /\ returned' = <<>>
        /\ UNCHANGED <<table, next_id>>
        /\ MockAnswered

mock_create_customer ==
    /\ entities["customer"].issued < MaxEntities
    /\ mock_insert("customer", [phone |-> PhoneBody(10)])
    /\ UNCHANGED <<table, next_id>>
    /\ MockAnswered
mock_get_customer == mock_get("customer", EntityIds)
mock_delete_customer == mock_delete("customer", EntityIds)

mock_create_vehicle ==
    \E customer_id \in EntityIds :
        /\ entities["vehicle"].issued < MaxEntities
        /\ IF customer_id \notin DOMAIN entities["customer"].rows
           THEN /\ resp' = EntityResponse("create_vehicle", "vehicle", NoId, 404)
                /\ returned' = <<>>
                /\ UNCHANGED entities
           ELSE mock_insert("vehicle", [customer_id |-> customer_id])
        /\ UNCHANGED <<table, next_id>>
        /\ MockAnswered
mock_get_vehicle == mock_get("vehicle", EntityIds)
mock_delete_vehicle == mock_delete("vehicle", EntityIds)

mock_create_service_center ==
    /\ entities["service_center"].issued <= MaxEntities
    /\ mock_insert("service_center", [name |-> "north"])
    /\ UNCHANGED <<table, next_id>>
    /\ MockAnswered
mock_get_service_center == mock_get("service_center", MockCenterIds)
mock_delete_service_center == mock_delete("service_center", MockCenterIds)

\* create_booking's cost_map, in cents, and the default of cost_map.get
cost_map ==
    [t \in ServiceType |->
        CASE t = "OIL_CHANGE" -> 5000
          [] t = "TIRE_ROTATION" -> 4000
          [] t = "BRAKE_SERVICE" -> 15000
          [] t = "ENGINE_DIAGNOSTIC" -> 10000
          [] t = "FULL_SERVICE" -> 30000
          [] t = "GENERAL_REPAIR" -> 8000]
DEFAULT_MOCK_COST == 10000
MockServiceTypes == ServiceType \cup {"DETAILING"}

mock_estimated_cost(service_type) ==
    IF service_type \in DOMAIN cost_map THEN cost_map[service_type]
    ELSE DEFAULT_MOCK_COST

mock_create_booking ==
    \E customer_id \in EntityIds, vehicle_id \in EntityIds,
       service_center_id \in MockCenterIds, service_type \in MockServiceTypes :
        LET booking_id == next_id + 1
            new_booking == [booking_id |-> booking_id,
                            customer_id |-> customer_id,
                            vehicle_id |-> vehicle_id,
                            service_center_id |-> service_center_id,
                            service_type |-> service_type,
                            status |-> "PENDING",
                            estimated_cost |-> mock_estimated_cost(service_type)]
        IN  /\ next_id < MaxBookings
            /\ IF \/ customer_id \notin DOMAIN entities["customer"].rows
                  \/ vehicle_id \notin DOMAIN entities["vehicle"].rows
                  \/ service_center_id \notin DOMAIN entities["service_center"].rows
               THEN /\ resp' = EntityResponse("create_booking", "booking", NoId, 404)
                    /\ returned' = <<>>
                    /\ UNCHANGED <<table, next_id>>
               ELSE /\ resp' = EntityResponse("create_booking", "booking",
                                              booking_id, 200)
                    /\ returned' = <<new_booking>>
                    /\ table' = put_item(table, new_booking)
                    /\ next_id' = booking_id
            /\ UNCHANGED entities
            /\ MockAnswered

mock_get_booking ==
    \E booking_id \in BookingIds :
        /\ IF booking_id \notin DOMAIN table
           THEN /\ resp' = EntityResponse("get_booking", "booking", booking_id, 404)
                /\ returned' = <<>>
           ELSE /\ resp' = EntityResponse("get_booking", "booking", booking_id, 200)
                /\ returned' = <<table[booking_id]>>
        /\ UNCHANGED <<entities, table, next_id>>
        /\ MockAnswered

mock_delete_booking ==
    \E booking_id \in BookingIds :
        /\ IF booking_id \notin DOMAIN table
           THEN /\ resp' = EntityResponse("delete_booking", "booking", booking_id, 404)
                /\ UNCHANGED table
           ELSE /\ resp' = EntityResponse("delete_booking", "booking", booking_id, 200)
                /\ table' = delete_item(table, booking_id)
        /\ returned' = <<>>
        /\ UNCHANGED <<entities, next_id>>
        /\ MockAnswered

MockNext ==
    \/ mock_create_customer
    \/ mock_get_customer
    \/ mock_delete_customer
    \/ mock_create_vehicle
    \/ mock_get_vehicle
    \/ mock_delete_vehicle
    \/ mock_create_service_center
    \/ mock_get_service_center
    \/ mock_delete_service_center
    \/ mock_create_booking
    \/ mock_get_booking
    \/ mock_delete_booking

MockSpec == MockInit /\ [][MockNext]_vars

Stored(kind) == DOMAIN entities[kind].rows

\* C28: in the mock application, after any sequence of creations and
\* deletions, every stored booking references a stored customer, a stored
\* vehicle and a stored service center, and every stored vehicle references
\* a stored customer.
C28_MockReferencesAreStored ==
    /\ \A booking_id \in DOMAIN table :
          /\ table[booking_id].customer_id \in Stored("customer")
          /\ table[booking_id].vehicle_id \in Stored("vehicle")
          /\ table[booking_id].service_center_id \in Stored("service_center")
    /\ \A vehicle_id \in Stored("vehicle") :
          entities["vehicle"].rows[vehicle_id].customer_id \in Stored("customer")

\* C29: the estimated_cost the mock create_booking stores equals the
\* estimate of the real application, calculate_service_cost with 1.5 hours,
\* for every service type.
C29_MockEstimateIsRealEstimate ==
    \A booking_id \in DOMAIN table :
        table[booking_id].service_type \in ServiceType =>
            table[booking_id].estimated_cost =
                calculate_service_cost(table[booking_id].service_type,
                    DefaultEstimatedHours, FALSE, FALSE, 0).estimated_total

====
